---------------------------- MODULE Spec2Model ----------------------------
(***************************************************************************)
(* Model of the LLM output stability gate (gate/) and of the UQLM-Guard    *)
(* analysis engine (uqlm_guard/core/analyzer.py).                          *)
(*                                                                         *)
(* Numbers.  A confidence score or threshold is a Python float.  The model *)
(* writes the float nearest to n/1000 as the integer n (Unit stands for    *)
(* 1.0), so 0.6 is 600 and 0.59 is 590.  The map n |-> float(n/1000) is    *)
(* strictly increasing, hence <, >= and == on the floats are <, >= and =   *)
(* on the integers.                                                        *)
(*                                                                         *)
(* Text.  A Python str is a sequence of one-character strings.             *)
(* Optional[str] is a set with at most one element: None is {}.            *)
(***************************************************************************)
EXTENDS Integers, Sequences, FiniteSets, TLC

VARIABLES
    policy_call,    \* frame of one call enforce_confidence_threshold(score, threshold)
    rec_call,       \* frame of one call _generate_recommendation(confidence, inconsistencies)
    http,           \* one POST /evaluate exchange: request, handler position, response
    analysis,       \* frame of one UQLMAnalyzer.analyze(prompt, num_samples) invocation
    ext_calls,      \* the calls issued so far to uq.generate_and_score, in order
    ext_reply,      \* what the pending generate_and_score call produced
    detect_call,    \* frame of one direct call of a detector method of UQLMAnalyzer
    tasks,          \* the frames of the invocations that run concurrently
    replies,        \* replies[k]: what call k of ext_calls produced, for concurrent runs
    cli,            \* frame of one invocation of a command of the uqlm-guard CLI
    bench,          \* frame of run_benchmark working through one category
    bands           \* one confidence score and the level each consumer gives it

vars == <<policy_call, rec_call, http, analysis, ext_calls, ext_reply,
          detect_call, tasks, replies, cli, bench, bands>>

---------------------------------------------------------------------------
(* Bounds of the model *)

\* thresholds handed to the policy function are the multiples of this step
ThresholdStep == 25
\* longest prompt drawn
MaxPromptLen == 2
\* largest num_samples handed to analyze, and most responses a reply carries
MaxSamples == 3
\* longest inconsistency list handed to _generate_recommendation directly
MaxIncs == 2
\* most invocations of analyze and evaluate_prompt in flight together
MaxTasks == 2
\* most lines of the prompts file handed to the batch command
MaxLines == 2
\* most prompts of the category run_benchmark works through
MaxPrompts == 3
\* confidences handed to _generate_recommendation directly: the multiples of
\* this step, and the values next to each band boundary
ScoreStep == 20

---------------------------------------------------------------------------
(* Program constants, in thousandths *)

Unit == 1000            \* 1.0
HighBand == 800         \* 0.8
MediumBand == 600       \* 0.6
LowBand == 400          \* 0.4
DefaultMinConfidence == 600
DefaultNumSamples == 5
MinNumSamples == 2
MaxNumSamples == 10
MinPromptLength == 1
StatusOk == 200
StatusUnprocessable == 422
StatusServerError == 500

---------------------------------------------------------------------------
(* Text helpers *)

None == {}
Some(x) == {x}

Whitespace == {" ", "\t", "\n", "\r", "\f"}

Digit == <<"0", "1", "2", "3", "4", "5", "6", "7", "8", "9">>
DigitText(d) == <<Digit[d + 1]>>

RECURSIVE IntText(_)
\* str(k) for an integer k >= 0
IntText(k) == IF k < 10 THEN DigitText(k)
              ELSE IntText(k \div 10) \o DigitText(k % 10)

\* The scores n = 10q+5 in [0, 1) whose float lies above the decimal tie
\* (or lies exactly on it with q odd), so that "%.2f" rounds them upward.
\* Every other such n is rendered as q hundredths.
TieRoundsUp ==
    {5, 25, 35, 55, 65, 85, 95, 115, 135, 165, 195, 225, 255, 265, 275,
     315, 325, 335, 375, 385, 395, 405, 445, 455, 465, 505, 515, 525, 535,
     545, 555, 635, 645, 655, 665, 675, 685, 755, 765, 775, 785, 795, 805,
     875, 885, 895, 905, 915, 925, 935}

\* the number of hundredths "{x:.2f}" prints for the float written n
Hundredths(n) ==
    IF n % 10 = 5
    THEN IF n \in TieRoundsUp THEN (n + 5) \div 10 ELSE n \div 10
    ELSE (n + 5) \div 10

\* the digits cut off after the second decimal instead of rounded
Format2f_truncating(n) ==
    LET h == n \div 10
    IN  IntText(h \div 100) \o <<".">> \o DigitText((h \div 10) % 10) \o DigitText(h % 10)

\* f"{x:.2f}" for x >= 0
Format2f(n) ==
    LET h == Hundredths(n)
    IN  IntText(h \div 100) \o <<".">> \o DigitText((h \div 10) % 10) \o DigitText(h % 10)

PolicyPrefix ==
    <<"O", "u", "t", "p", "u", "t", " ", "c", "o", "n", "f", "i", "d", "e", "n", "c", "e", " ">>
PolicyMiddle ==
    <<" ", "i", "s", " ", "b", "e", "l", "o", "w", " ", "r", "e", "q", "u", "i", "r", "e", "d", " ", "t", "h", "r", "e", "s", "h", "o", "l", "d", " ">>

HighMsg ==
    <<"H", "I", "G", "H", " ", "C", "O", "N", "F", "I", "D", "E", "N", "C", "E", " ", "-", " ", "O", "u", "t", "p", "u", "t", " ", "a", "p", "p", "e", "a", "r", "s", " ", "r", "e", "l", "i", "a", "b", "l", "e">>
MediumFlaggedMsg ==
    <<"M", "E", "D", "I", "U", "M", " ", "C", "O", "N", "F", "I", "D", "E", "N", "C", "E", " ", "-", " ", "R", "e", "v", "i", "e", "w", " ", "f", "l", "a", "g", "g", "e", "d", " ", "i", "s", "s", "u", "e", "s", " ", "b", "e", "f", "o", "r", "e", " ", "u", "s", "e">>
MediumMsg ==
    <<"M", "E", "D", "I", "U", "M", " ", "C", "O", "N", "F", "I", "D", "E", "N", "C", "E", " ", "-", " ", "A", "c", "c", "e", "p", "t", "a", "b", "l", "e", " ", "w", "i", "t", "h", " ", "r", "e", "v", "i", "e", "w">>
LowMsg ==
    <<"L", "O", "W", " ", "C", "O", "N", "F", "I", "D", "E", "N", "C", "E", " ", "-", " ", "M", "a", "n", "u", "a", "l", " ", "r", "e", "v", "i", "e", "w", " ", "r", "e", "q", "u", "i", "r", "e", "d", ",", " ", "s", "i", "g", "n", "i", "f", "i", "c", "a", "n", "t", " ", "u", "n", "c", "e", "r", "t", "a", "i", "n", "t", "y">>
VeryLowMsg ==
    <<"V", "E", "R", "Y", " ", "L", "O", "W", " ", "C", "O", "N", "F", "I", "D", "E", "N", "C", "E", " ", "-", " ", "D", "o", " ", "n", "o", "t", " ", "u", "s", "e", ",", " ", "h", "i", "g", "h", "l", "y", " ", "u", "n", "r", "e", "l", "i", "a", "b", "l", "e", " ", "o", "u", "t", "p", "u", "t">>
UqlmFailedPrefix ==
    <<"U", "Q", "L", "M", " ", "e", "v", "a", "l", "u", "a", "t", "i", "o", "n", " ", "f", "a", "i", "l", "e", "d", ":", " ">>
EvalFailedPrefix ==
    <<"E", "v", "a", "l", "u", "a", "t", "i", "o", "n", " ", "f", "a", "i", "l", "e", "d", ":", " ">>

---------------------------------------------------------------------------
(* gate/policy.py *)

\* the comparison made strict the other way: the boundary score fails
enforce_confidence_threshold_boundary_fails(score, threshold) ==
    IF score <= threshold
    THEN [passed |-> FALSE,
          reason |-> Some(PolicyPrefix \o Format2f(score)
                          \o PolicyMiddle \o Format2f(threshold))]
    ELSE [passed |-> TRUE, reason |-> None]

enforce_confidence_threshold(score, threshold) ==
    IF score < threshold
    THEN [passed |-> FALSE,
          reason |-> Some(PolicyPrefix \o Format2f(score)
                          \o PolicyMiddle \o Format2f(threshold))]
    ELSE [passed |-> TRUE, reason |-> None]

---------------------------------------------------------------------------
(* Python str and list operations used by the analyzer *)

Raise(type, msg) == [raised |-> TRUE, type |-> type, msg |-> msg]
Return(value) == [raised |-> FALSE, value |-> value]

UpperLetters == <<"A", "B", "C", "D", "E", "F", "G", "H", "I", "J", "K", "L", "M",
                  "N", "O", "P", "Q", "R", "S", "T", "U", "V", "W", "X", "Y", "Z">>
LowerLetters == <<"a", "b", "c", "d", "e", "f", "g", "h", "i", "j", "k", "l", "m",
                  "n", "o", "p", "q", "r", "s", "t", "u", "v", "w", "x", "y", "z">>

\* str.lower()
lower(text) ==
    [i \in DOMAIN text |->
        IF \E k \in 1..26 : UpperLetters[k] = text[i]
        THEN LowerLetters[CHOOSE k \in 1..26 : UpperLetters[k] = text[i]]
        ELSE text[i]]

\* str.strip(): leading and trailing whitespace removed
strip(text) ==
    LET keep == {i \in DOMAIN text : text[i] \notin Whitespace}
    IN  IF keep = {} THEN <<>>
        ELSE LET lo == CHOOSE i \in keep : \A j \in keep : i <= j
                 hi == CHOOSE i \in keep : \A j \in keep : i >= j
             IN  SubSeq(text, lo, hi)

RECURSIVE split_on_dropping_empty(_, _)
\* the empty pieces dropped, as str.split() without a separator drops them
split_on_dropping_empty(text, sep) ==
    LET at == {i \in DOMAIN text : text[i] = sep}
    IN  IF at = {} THEN (IF text = <<>> THEN <<>> ELSE <<text>>)
        ELSE LET i == CHOOSE k \in at : \A j \in at : k <= j
             IN  (IF i = 1 THEN <<>> ELSE <<SubSeq(text, 1, i - 1)>>)
                 \o split_on_dropping_empty(SubSeq(text, i + 1, Len(text)), sep)

RECURSIVE split_on(_, _)
\* str.split(sep) for a one-character sep: empty pieces are kept
split_on(text, sep) ==
    LET at == {i \in DOMAIN text : text[i] = sep}
    IN  IF at = {} THEN <<text>>
        ELSE LET i == CHOOSE k \in at : \A j \in at : k <= j
             IN  <<SubSeq(text, 1, i - 1)>> \o split_on(SubSeq(text, i + 1, Len(text)), sep)

RECURSIVE split(_)
\* str.split(): the maximal runs of non-whitespace characters, in order
split(text) ==
    LET word == {i \in DOMAIN text : text[i] \notin Whitespace}
    IN  IF word = {} THEN <<>>
        ELSE LET lo == CHOOSE i \in word : \A j \in word : i <= j
                 stop == {i \in DOMAIN text : i > lo /\ text[i] \in Whitespace}
                 hi == IF stop = {} THEN Len(text)
                       ELSE (CHOOSE i \in stop : \A j \in stop : i <= j) - 1
             IN  <<SubSeq(text, lo, hi)>> \o split(SubSeq(text, hi + 1, Len(text)))

Range(seq) == {seq[i] : i \in DOMAIN seq}

RECURSIVE SumSeq(_)
SumSeq(seq) == IF seq = <<>> THEN 0 ELSE seq[1] + SumSeq(Tail(seq))

SeqMin(seq) == CHOOSE x \in Range(seq) : \A y \in Range(seq) : x <= y
SeqMax(seq) == CHOOSE x \in Range(seq) : \A y \in Range(seq) : x >= y

\* list(s) for a set s: Python fixes no iteration order, so every
\* arrangement of the elements is a possible outcome
ListsOf(S) ==
    {f \in [1..Cardinality(S) -> S] : \A i, j \in 1..Cardinality(S) : i # j => f[i] # f[j]}

\* literal text
Chars_lengths_vary == <<"R", "e", "s", "p", "o", "n", "s", "e", " ", "l", "e", "n", "g", "t", "h", "s", " ", "v", "a", "r", "y", " ", "s", "i", "g", "n", "i", "f", "i", "c", "a", "n", "t", "l", "y", " ", "(">>
Chars_to == <<" ", "t", "o", " ">>
Chars_chars == <<" ", "c", "h", "a", "r", "s", ")">>
Chars_Keyword == <<"K", "e", "y", "w", "o", "r", "d", " ", "'">>
Chars_appears_in == <<"'", " ", "a", "p", "p", "e", "a", "r", "s", " ", "i", "n", " ">>
Chars_responses == <<" ", "r", "e", "s", "p", "o", "n", "s", "e", "s">>
Chars_division_by_zero == <<"d", "i", "v", "i", "s", "i", "o", "n", " ", "b", "y", " ", "z", "e", "r", "o">>
Chars_confidence_score == <<"'", "c", "o", "n", "f", "i", "d", "e", "n", "c", "e", "_", "s", "c", "o", "r", "e", "'">>
Chars_response_ == <<"'", "r", "e", "s", "p", "o", "n", "s", "e", "_">>

---------------------------------------------------------------------------
(* uqlm_guard/core/analyzer.py: the inconsistency detector *)

\* the words compared as written, without lower()
keywords_of_case_sensitive(response) ==
    {w \in Range(split(response)) : Len(w) > 5}

\* keywords of one response: set(w for w in response.lower().split() if len(w) > 5)
keywords_of(response) ==
    {w \in Range(split(lower(response))) : Len(w) > 5}

\* the sample variance (divisor N - 1) in place of the population variance
length_variance_high_sample(lengths) ==
    LET N == Len(lengths)
        S == SumSeq(lengths)
    IN  /\ N > 1
        /\ 2 * SumSeq([i \in 1..N |-> (lengths[i] * N - S) * (lengths[i] * N - S)])
              > S * N * (N - 1)

\* the comparison made inclusive: length_variance >= avg_length * 0.5
length_variance_high_inclusive(lengths) ==
    LET N == Len(lengths)
        S == SumSeq(lengths)
    IN  2 * SumSeq([i \in 1..N |-> (lengths[i] * N - S) * (lengths[i] * N - S)]) >= S * N * N

\* length_variance > avg_length * 0.5, both sides multiplied by 2 * N^3:
\* variance = sum((l*N - S)^2) / N^3 and avg = S / N for S = sum(lengths)
length_variance_high(lengths) ==
    LET N == Len(lengths)
        S == SumSeq(lengths)
    IN  2 * SumSeq([i \in 1..N |-> (lengths[i] * N - S) * (lengths[i] * N - S)]) > S * N * N

structural_entry(lengths) ==
    LET N == Len(lengths)
        S == SumSeq(lengths)
    IN  [type |-> "structural",
         severity |-> "high",
         description |-> Chars_lengths_vary \o IntText(SeqMin(lengths)) \o Chars_to
                           \o IntText(SeqMax(lengths)) \o Chars_chars,
         details |-> [lengths |-> lengths,
                      \* the variance as the fraction numerator / denominator
                      variance |-> <<SumSeq([i \in 1..N |->
                                        (lengths[i] * N - S) * (lengths[i] * N - S)]),
                                     N * N * N>>]]

\* a keyword disagreement rated high, like a length disagreement
conceptual_entry_high(keyword, count, N) ==
    [type |-> "conceptual",
     severity |-> "high",
     description |-> Chars_Keyword \o keyword \o Chars_appears_in \o IntText(count)
                       \o <<"/">> \o IntText(N) \o Chars_responses,
     keyword |-> keyword,
     frequency |-> <<count, N>>]

conceptual_entry(keyword, count, N) ==
    [type |-> "conceptual",
     severity |-> "medium",
     description |-> Chars_Keyword \o keyword \o Chars_appears_in \o IntText(count)
                       \o <<"/">> \o IntText(N) \o Chars_responses,
     keyword |-> keyword,
     \* the frequency count / N as a fraction
     frequency |-> <<count, N>>]

\* an early return for no responses, as _find_consensus has one
_find_inconsistencies_empty_ok(responses) ==
    LET N == Len(responses)
        lengths == [i \in 1..N |-> Len(responses[i])]
    IN  IF N = 0 THEN Return({<<>>})
        ELSE
        LET structural == IF length_variance_high(lengths)
                          THEN <<structural_entry(lengths)>>
                          ELSE <<>>
            keywords_per_response == [i \in 1..N |-> keywords_of(responses[i])]
            all_keywords == UNION Range(keywords_per_response)
            count(kw) == Cardinality({i \in 1..N : kw \in keywords_per_response[i]})
            partial == {kw \in all_keywords : 0 < count(kw) /\ count(kw) < N}
        IN  Return({structural \o [i \in DOMAIN order |->
                                      conceptual_entry(order[i], count(order[i]), N)]
                    : order \in ListsOf(partial)})

\* the two checks in the other order: the length check after the keywords
_find_inconsistencies_structural_last(responses) ==
    LET N == Len(responses)
        lengths == [i \in 1..N |-> Len(responses[i])]
    IN  IF N = 0 THEN Raise("ZeroDivisionError", Chars_division_by_zero)
        ELSE
        LET structural == IF length_variance_high(lengths)
                          THEN <<structural_entry(lengths)>>
                          ELSE <<>>
            keywords_per_response == [i \in 1..N |-> keywords_of(responses[i])]
            all_keywords == UNION Range(keywords_per_response)
            count(kw) == Cardinality({i \in 1..N : kw \in keywords_per_response[i]})
            partial == {kw \in all_keywords : 0 < count(kw) /\ count(kw) < N}
        IN  Return({[i \in DOMAIN order |->
                        conceptual_entry(order[i], count(order[i]), N)] \o structural
                    : order \in ListsOf(partial)})

\* The outcome of _find_inconsistencies(responses): an exception, or the set
\* of lists it may return.  The conceptual entries follow the iteration
\* order of the set all_keywords, which Python does not fix.
_find_inconsistencies(responses) ==
    LET N == Len(responses)
        lengths == [i \in 1..N |-> Len(responses[i])]
    IN  IF N = 0 THEN Raise("ZeroDivisionError", Chars_division_by_zero)
        ELSE
        LET structural == IF length_variance_high(lengths)
                          THEN <<structural_entry(lengths)>>
                          ELSE <<>>
            keywords_per_response == [i \in 1..N |-> keywords_of(responses[i])]
            all_keywords == UNION Range(keywords_per_response)
            count(kw) == Cardinality({i \in 1..N : kw \in keywords_per_response[i]})
            partial == {kw \in all_keywords : 0 < count(kw) /\ count(kw) < N}
        IN  Return({structural \o [i \in DOMAIN order |->
                                      conceptual_entry(order[i], count(order[i]), N)]
                    : order \in ListsOf(partial)})

---------------------------------------------------------------------------
(* uqlm_guard/core/analyzer.py: the consensus extractor *)

RECURSIVE intersect_all_union(_, _)
\* common_lines |= set(lines): the lines of any response, not of every one
intersect_all_union(common_lines, lines_per_response) ==
    IF lines_per_response = <<>> THEN common_lines
    ELSE intersect_all_union(common_lines \cup Range(lines_per_response[1]),
                             Tail(lines_per_response))

RECURSIVE intersect_all(_, _)
\* common_lines &= set(lines), for each of the remaining responses in turn
intersect_all(common_lines, lines_per_response) ==
    IF lines_per_response = <<>> THEN common_lines
    ELSE intersect_all(common_lines \cap Range(lines_per_response[1]),
                       Tail(lines_per_response))

\* The set of lists _find_consensus(responses) may return: list(common_lines)
\* in any order.
_find_consensus(responses) ==
    IF responses = <<>> THEN {<<>>}
    ELSE LET lines_per_response == [i \in DOMAIN responses |-> split_on(responses[i], "\n")]
             first_lines == Range(lines_per_response[1])
         IN  ListsOf(intersect_all(first_lines, Tail(lines_per_response)))

---------------------------------------------------------------------------
(* difflib, as used by the divergence detector.  Positions are Python's:   *)
(* 0-based, ranges half-open; element i of a is a[i + 1] here.  Neither    *)
(* text has 200 elements, so no element is treated as junk.                *)

DiffContext == 3        \* unified_diff(..., n=3)
DivergenceThreshold == 5

Min2(x, y) == IF x <= y THEN x ELSE y
Max2(x, y) == IF x >= y THEN x ELSE y

RECURSIVE run_length(_, _, _, _, _, _)
\* j2len: the length of the run of equal elements that ends at a[i], b[j]
\* and stays inside a[alo:], b[blo:]
run_length(a, b, alo, blo, i, j) ==
    IF i < alo \/ j < blo THEN 0
    ELSE IF a[i + 1] # b[j + 1] THEN 0
    ELSE 1 + run_length(a, b, alo, blo, i - 1, j - 1)

\* SequenceMatcher.find_longest_match: <<i, j, k>> with a[i:i+k] == b[j:j+k],
\* k largest, then i smallest, then j smallest; <<alo, blo, 0>> if none
find_longest_match(a, b, alo, ahi, blo, bhi) ==
    LET ends == (alo..(ahi - 1)) \X (blo..(bhi - 1))
        len(e) == run_length(a, b, alo, blo, e[1], e[2])
        runs == {e \in ends : len(e) > 0}
    IN  IF runs = {} THEN <<alo, blo, 0>>
        ELSE LET longest == {e \in runs : \A f \in runs : len(e) >= len(f)}
                 best == CHOOSE e \in longest :
                            \A f \in longest :
                                e[1] < f[1] \/ (e[1] = f[1] /\ e[2] <= f[2])
                 k == len(best)
             IN  <<best[1] - k + 1, best[2] - k + 1, k>>

RECURSIVE matching_blocks_in(_, _, _, _, _, _)
\* the blocks get_matching_blocks finds in a[alo:ahi], b[blo:bhi]
matching_blocks_in(a, b, alo, ahi, blo, bhi) ==
    LET m == find_longest_match(a, b, alo, ahi, blo, bhi)
        i == m[1]
        j == m[2]
        k == m[3]
    IN  IF k = 0 THEN {}
        ELSE {m}
             \cup (IF alo < i /\ blo < j
                   THEN matching_blocks_in(a, b, alo, i, blo, j) ELSE {})
             \cup (IF i + k < ahi /\ j + k < bhi
                   THEN matching_blocks_in(a, b, i + k, ahi, j + k, bhi) ELSE {})

RECURSIVE sorted_blocks(_)
\* matching_blocks.sort()
sorted_blocks(blocks) ==
    IF blocks = {} THEN <<>>
    ELSE LET first == CHOOSE m \in blocks :
                         \A o \in blocks : m[1] < o[1] \/ (m[1] = o[1] /\ m[2] <= o[2])
         IN  <<first>> \o sorted_blocks(blocks \ {first})

RECURSIVE collapse_adjacent(_, _)
\* adjacent equal blocks merged into one; the pending block is cur
collapse_adjacent(blocks, cur) ==
    IF blocks = <<>> THEN (IF cur[3] > 0 THEN <<cur>> ELSE <<>>)
    ELSE LET nxt == blocks[1]
         IN  IF cur[1] + cur[3] = nxt[1] /\ cur[2] + cur[3] = nxt[2]
             THEN collapse_adjacent(Tail(blocks), <<cur[1], cur[2], cur[3] + nxt[3]>>)
             ELSE (IF cur[3] > 0 THEN <<cur>> ELSE <<>>)
                  \o collapse_adjacent(Tail(blocks), nxt)

\* SequenceMatcher(None, a, b).get_matching_blocks(), with its sentinel
get_matching_blocks(a, b) ==
    collapse_adjacent(sorted_blocks(matching_blocks_in(a, b, 0, Len(a), 0, Len(b))),
                      <<0, 0, 0>>)
    \o <<<<Len(a), Len(b), 0>>>>

\* SequenceMatcher(None, a, b).ratio() as the fraction <<2 * matches, length>>
ratio(a, b) ==
    LET blocks == get_matching_blocks(a, b)
        matches == SumSeq([n \in DOMAIN blocks |-> blocks[n][3]])
        length == Len(a) + Len(b)
    IN  IF length > 0 THEN <<2 * matches, length>> ELSE <<1, 1>>

Opcode(tag, i1, i2, j1, j2) == [tag |-> tag, i1 |-> i1, i2 |-> i2, j1 |-> j1, j2 |-> j2]

RECURSIVE opcodes_from(_, _, _)
opcodes_from(blocks, i, j) ==
    IF blocks = <<>> THEN <<>>
    ELSE LET ai == blocks[1][1]
             bj == blocks[1][2]
             size == blocks[1][3]
             tag == IF i < ai /\ j < bj THEN "replace"
                    ELSE IF i < ai THEN "delete"
                    ELSE IF j < bj THEN "insert"
                    ELSE ""
         IN  (IF tag # "" THEN <<Opcode(tag, i, ai, j, bj)>> ELSE <<>>)
             \o (IF size > 0 THEN <<Opcode("equal", ai, ai + size, bj, bj + size)>>
                 ELSE <<>>)
             \o opcodes_from(Tail(blocks), ai + size, bj + size)

\* SequenceMatcher(None, a, b).get_opcodes()
get_opcodes(a, b) == opcodes_from(get_matching_blocks(a, b), 0, 0)

\* an unchanged range cut down to its last n / its first n elements
keep_tail(c, n) == Opcode(c.tag, Max2(c.i1, c.i2 - n), c.i2, Max2(c.j1, c.j2 - n), c.j2)
keep_head(c, n) == Opcode(c.tag, c.i1, Min2(c.i2, c.i1 + n), c.j1, Min2(c.j2, c.j1 + n))

RECURSIVE group_codes(_, _, _)
\* the loop of get_grouped_opcodes: a long unchanged range ends the group
group_codes(codes, group, n) ==
    IF codes = <<>>
    THEN (IF group # <<>> /\ ~(Len(group) = 1 /\ group[1].tag = "equal")
          THEN <<group>> ELSE <<>>)
    ELSE IF codes[1].tag = "equal" /\ codes[1].i2 - codes[1].i1 > n + n
    THEN <<Append(group, keep_head(codes[1], n))>>
         \o group_codes(Tail(codes), <<keep_tail(codes[1], n)>>, n)
    ELSE group_codes(Tail(codes), Append(group, codes[1]), n)

\* the leading and the trailing opcode cut down to n lines of context when
\* they show no change
fixup_ends(codes, n) ==
    [k \in DOMAIN codes |->
        LET c == codes[k]
            d == IF k = 1 /\ c.tag = "equal" THEN keep_tail(c, n) ELSE c
        IN  IF k = Len(codes) /\ d.tag = "equal" THEN keep_head(d, n) ELSE d]

\* SequenceMatcher(None, a, b).get_grouped_opcodes(n)
get_grouped_opcodes(a, b, n) ==
    LET codes == get_opcodes(a, b)
    IN  group_codes(fixup_ends(IF codes = <<>> THEN <<Opcode("equal", 0, 1, 0, 1)>>
                               ELSE codes, n),
                    <<>>, n)

\* the records one opcode contributes to a unified diff
opcode_records(c) ==
    IF c.tag = "equal" THEN c.i2 - c.i1
    ELSE (IF c.tag \in {"replace", "delete"} THEN c.i2 - c.i1 ELSE 0)
         + (IF c.tag \in {"replace", "insert"} THEN c.j2 - c.j1 ELSE 0)

\* len(list(difflib.unified_diff(a, b, lineterm=''))): the two file header
\* records once, then per group its @@ record and its lines
unified_diff_len(a, b) ==
    LET groups == get_grouped_opcodes(a, b, DiffContext)
    IN  (IF groups = <<>> THEN 0 ELSE 2)
        + SumSeq([g \in DOMAIN groups |->
                     1 + SumSeq([k \in DOMAIN groups[g] |-> opcode_records(groups[g][k])])])

---------------------------------------------------------------------------
(* uqlm_guard/core/analyzer.py: the divergence detector *)

RECURSIVE pairs_from_both_orders(_, _, _)
\* the inner loop over every other index, range(len(responses)), so that
\* each pair is visited in both orders
pairs_from_both_orders(i, j, N) ==
    IF i >= N THEN <<>>
    ELSE IF j >= N THEN pairs_from_both_orders(i + 1, 0, N)
    ELSE (IF i # j THEN <<<<i, j>>>> ELSE <<>>) \o pairs_from_both_orders(i, j + 1, N)

\* the pairs (i, j), i < j, in the order of the two nested loops
RECURSIVE pairs_from(_, _, _)
pairs_from(i, j, N) ==
    IF i >= N THEN <<>>
    ELSE IF j >= N THEN pairs_from(i + 1, i + 2, N)
    ELSE <<<<i, j>>>> \o pairs_from(i, j + 1, N)

divergence_entry(responses, i, j) ==
    [response_pair |-> <<i, j>>,
     diff_lines |-> unified_diff_len(split_on(responses[i + 1], "\n"),
                                     split_on(responses[j + 1], "\n")),
     similarity |-> ratio(responses[i + 1], responses[j + 1])]

\* every pair kept: the significance test left out
_find_divergence_no_threshold(responses) ==
    LET pairs == pairs_from(0, 1, Len(responses))
    IN  [p \in DOMAIN pairs |-> divergence_entry(responses, pairs[p][1], pairs[p][2])]

\* the significance test made inclusive: len(diff_lines) >= 5
_find_divergence_inclusive(responses) ==
    LET pairs == pairs_from(0, 1, Len(responses))
        entries == [p \in DOMAIN pairs |->
                       divergence_entry(responses, pairs[p][1], pairs[p][2])]
    IN  SelectSeq(entries, LAMBDA e : e.diff_lines >= DivergenceThreshold)

_find_divergence(responses) ==
    LET pairs == pairs_from(0, 1, Len(responses))
        entries == [p \in DOMAIN pairs |->
                       divergence_entry(responses, pairs[p][1], pairs[p][2])]
    IN  SelectSeq(entries, LAMBDA e : e.diff_lines > DivergenceThreshold)

---------------------------------------------------------------------------
(* uqlm_guard/core/analyzer.py: the recommendation generator *)

\* Counter(inc["severity"] for inc in inconsistencies).get(sev, 0)
severity_count(inconsistencies, sev) ==
    Cardinality({i \in DOMAIN inconsistencies : inconsistencies[i].severity = sev})

\* the HIGH band compared with > instead of >=
_generate_recommendation_exclusive(confidence, inconsistencies) ==
    IF confidence > HighBand THEN HighMsg
    ELSE IF confidence >= MediumBand
         THEN IF severity_count(inconsistencies, "high") > 0
              THEN MediumFlaggedMsg
              ELSE MediumMsg
    ELSE IF confidence >= LowBand THEN LowMsg
    ELSE VeryLowMsg

\* the severity test hoisted above the bands, so that a high-severity
\* entry also changes the verdict of the HIGH band
_generate_recommendation_severity_first(confidence, inconsistencies) ==
    IF confidence >= MediumBand /\ severity_count(inconsistencies, "high") > 0
    THEN MediumFlaggedMsg
    ELSE IF confidence >= HighBand THEN HighMsg
    ELSE IF confidence >= MediumBand THEN MediumMsg
    ELSE IF confidence >= LowBand THEN LowMsg
    ELSE VeryLowMsg

\* the MEDIUM band flagged by any severity at or above high
_generate_recommendation_critical_flags(confidence, inconsistencies) ==
    IF confidence >= HighBand THEN HighMsg
    ELSE IF confidence >= MediumBand
         THEN IF severity_count(inconsistencies, "high")
                    + severity_count(inconsistencies, "critical") > 0
              THEN MediumFlaggedMsg
              ELSE MediumMsg
    ELSE IF confidence >= LowBand THEN LowMsg
    ELSE VeryLowMsg

_generate_recommendation(confidence, inconsistencies) ==
    IF confidence >= HighBand THEN HighMsg
    ELSE IF confidence >= MediumBand
         THEN IF severity_count(inconsistencies, "high") > 0
              THEN MediumFlaggedMsg
              ELSE MediumMsg
    ELSE IF confidence >= LowBand THEN LowMsg
    ELSE VeryLowMsg

---------------------------------------------------------------------------
(* gate/models.py: validation of the request body *)

\* the validator without strip(): only the empty prompt is refused
prompt_not_empty_unstripped(v) == v # <<>>

\* EvaluationRequest.prompt_not_empty: TRUE when v passes, FALSE when the
\* validator raises ValueError
prompt_not_empty(v) == strip(v) # <<>>

\* EvaluationRequest(**body): the validated request, or a ValidationError.
\* A field the body lacks is None; prompt is required, the others default.
EvaluationRequest(body) ==
    LET min_confidence == IF body.min_confidence = None THEN DefaultMinConfidence
                          ELSE CHOOSE x \in body.min_confidence : TRUE
        num_samples == IF body.num_samples = None THEN DefaultNumSamples
                       ELSE CHOOSE x \in body.num_samples : TRUE
        prompt_ok == /\ body.prompt # None
                     /\ \A v \in body.prompt :
                           /\ Len(v) >= MinPromptLength
                           /\ prompt_not_empty(v)
        min_confidence_ok == min_confidence >= 0 /\ min_confidence <= Unit
        num_samples_ok == num_samples >= MinNumSamples /\ num_samples <= MaxNumSamples
    IN  IF prompt_ok /\ min_confidence_ok /\ num_samples_ok
        THEN Return([prompt |-> CHOOSE v \in body.prompt : TRUE,
                     min_confidence |-> min_confidence,
                     num_samples |-> num_samples])
        ELSE Raise("ValidationError",
                   {f \in {"prompt", "min_confidence", "num_samples"} :
                       \/ f = "prompt" /\ ~prompt_ok
                       \/ f = "min_confidence" /\ ~min_confidence_ok
                       \/ f = "num_samples" /\ ~num_samples_ok})

---------------------------------------------------------------------------
(* gate/evaluator.py and gate/main.py *)

\* the call evaluate_prompt (and analyze) makes: one request for all samples
generate_and_score_request(prompt, num_samples) ==
    [prompts |-> <<prompt>>, num_responses |-> num_samples]

\* evaluate_prompt without its try/except: the exception leaves as it is
evaluate_prompt_outcome_unwrapped(reply) ==
    IF reply.kind = "raised"
    THEN Raise(reply.error.type, reply.error.msg)
    ELSE IF reply.confidence_score = None
    THEN Raise("KeyError", Chars_confidence_score)
    ELSE Return(CHOOSE c \in reply.confidence_score : TRUE)

\* evaluate_prompt after its await: the confidence read from the data frame,
\* or any exception wrapped into Exception("UQLM evaluation failed: ...")
evaluate_prompt_outcome(reply) ==
    IF reply.kind = "raised"
    THEN Raise("Exception", UqlmFailedPrefix \o reply.error.msg)
    ELSE IF reply.confidence_score = None
    THEN Raise("Exception", UqlmFailedPrefix \o Chars_confidence_score)
    ELSE Return(CHOOSE c \in reply.confidence_score : TRUE)

\* the policy called with its two arguments exchanged
evaluate_response_swapped(outcome, req) ==
    IF outcome.raised
    THEN [status |-> StatusServerError, detail |-> EvalFailedPrefix \o outcome.msg]
    ELSE LET r == enforce_confidence_threshold(req.min_confidence, outcome.value)
         IN  [status |-> StatusOk,
              body |-> [confidence_score |-> outcome.value,
                        passed |-> r.passed,
                        reason |-> r.reason]]

\* evaluate(req) after evaluate_prompt: the policy and the response, or the
\* HTTPException made of whatever was raised
evaluate_response(outcome, req) ==
    IF outcome.raised
    THEN [status |-> StatusServerError, detail |-> EvalFailedPrefix \o outcome.msg]
    ELSE LET r == enforce_confidence_threshold(outcome.value, req.min_confidence)
         IN  [status |-> StatusOk,
              body |-> [confidence_score |-> outcome.value,
                        passed |-> r.passed,
                        reason |-> r.reason]]

---------------------------------------------------------------------------
(* Frames that are not in use *)

IdlePolicy == [pc |-> "idle", score |-> 0, threshold |-> 0,
               passed |-> FALSE, reason |-> None]
IdleRec == [pc |-> "idle", confidence |-> 0, inconsistencies |-> <<>>,
            recommendation |-> <<>>]
IdleHttp == [pc |-> "idle", body |-> [prompt |-> None, min_confidence |-> None,
                                      num_samples |-> None],
             req |-> None, response |-> None]
IdleAnalysis == [pc |-> "idle", model |-> "gpt-4o-mini", prompt |-> <<>>,
                 num_samples |-> 0, confidence |-> 0, responses |-> <<>>,
                 inconsistencies |-> <<>>, consensus_parts |-> <<>>,
                 divergent_parts |-> <<>>, recommendation |-> <<>>,
                 result |-> None, error |-> None]
NoReply == [kind |-> "none"]
Pending == [kind |-> "pending"]
IdleDetect == [pc |-> "idle", method |-> "", responses |-> <<>>, outcome |-> None]
IdleCli == [pc |-> "idle", command |-> "", api_key |-> None, samples |-> 0,
            prompt |-> <<>>, models |-> <<>>, file_path |-> <<>>, lines |-> <<>>,
            items |-> <<>>,
            printed |-> <<>>, analyzers |-> 0, results |-> <<>>,
            summary |-> None, exit_code |-> None]
IdleBench == [pc |-> "idle", prompts |-> <<>>, num_samples |-> 0,
              confidences |-> <<>>, category_results |-> None, stored |-> None]
IdleBands == [pc |-> "idle", score |-> 0, inconsistencies |-> <<>>,
              recommendation |-> None, level |-> None, batch |-> None,
              bench |-> None, gate |-> None]

---------------------------------------------------------------------------
(* A direct call of the policy function *)

PolicyScores == 0..Unit
PolicyThresholds == {t \in 0..Unit : t % ThresholdStep = 0}

InitPolicy ==
    /\ \E s \in PolicyScores, t \in PolicyThresholds :
          policy_call = [pc |-> "called", score |-> s, threshold |-> t,
                         passed |-> FALSE, reason |-> None]
    /\ rec_call = IdleRec
    /\ http = IdleHttp
    /\ analysis = IdleAnalysis
    /\ ext_calls = <<>>
    /\ ext_reply = NoReply
    /\ detect_call = IdleDetect
    /\ tasks = <<>>
    /\ replies = <<>>
    /\ cli = IdleCli
    /\ bench = IdleBench
    /\ bands = IdleBands

PolicyReturn ==
    /\ policy_call.pc = "called"
    /\ LET r == enforce_confidence_threshold(policy_call.score, policy_call.threshold)
       IN  policy_call' = [policy_call EXCEPT !.pc = "returned",
                                              !.passed = r.passed,
                                              !.reason = r.reason]
    /\ UNCHANGED <<rec_call, http, analysis, ext_calls, ext_reply>>
    /\ UNCHANGED <<detect_call, tasks, replies>>
    /\ UNCHANGED <<cli, bench, bands>>

NextPolicy == PolicyReturn

SpecPolicy == InitPolicy /\ [][NextPolicy]_vars

---------------------------------------------------------------------------
(* A direct call of the recommendation generator *)

BandBounds == {LowBand, MediumBand, HighBand}

RecScores ==
    {c \in 0..Unit : c % ScoreStep = 0}
    \cup UNION {{b - 1, b, b + 1} : b \in BandBounds}

\* one entry of each type and of each severity the data model names
IncPool ==
    {[type |-> "structural", severity |-> "high"],
     [type |-> "conceptual", severity |-> "medium"],
     [type |-> "logical", severity |-> "high"],
     [type |-> "security", severity |-> "critical"],
     [type |-> "performance", severity |-> "low"]}

IncLists == UNION {[1..k -> IncPool] : k \in 0..MaxIncs}

InitRec ==
    /\ \E c \in RecScores, incs \in IncLists :
          rec_call = [pc |-> "called", confidence |-> c, inconsistencies |-> incs,
                      recommendation |-> <<>>]
    /\ policy_call = IdlePolicy
    /\ http = IdleHttp
    /\ analysis = IdleAnalysis
    /\ ext_calls = <<>>
    /\ ext_reply = NoReply
    /\ detect_call = IdleDetect
    /\ tasks = <<>>
    /\ replies = <<>>
    /\ cli = IdleCli
    /\ bench = IdleBench
    /\ bands = IdleBands

RecReturn ==
    /\ rec_call.pc = "called"
    /\ rec_call' = [rec_call EXCEPT
                       !.pc = "returned",
                       !.recommendation =
                           _generate_recommendation(rec_call.confidence,
                                                   rec_call.inconsistencies)]
    /\ UNCHANGED <<policy_call, http, analysis, ext_calls, ext_reply>>
    /\ UNCHANGED <<detect_call, tasks, replies>>
    /\ UNCHANGED <<cli, bench, bands>>

NextRec == RecReturn

SpecRec == InitRec /\ [][NextRec]_vars

---------------------------------------------------------------------------
(* The external collaborator uq.generate_and_score *)

\* scores on both sides of every band boundary, and the two ends
CollabScores == UNION {{b - 1, b} : b \in BandBounds} \cup {0, Unit}

ResponsePool ==
    {<<"a", "\n", "b">>,
     <<"T", "o", "k", "e", "n", "s", " ", "a", "\n", "b">>,
     <<"t", "o", "k", "e", "n", "s">>,
     <<"s", "e", "c", "u", "r", "e">>}

ErrorPool ==
    {[type |-> "TimeoutError", msg |-> <<"t", "i", "m", "e", "o", "u", "t">>],
     [type |-> "RuntimeError", msg |-> <<"q", "u", "o", "t", "a">>]}

\* results.to_df(): the column confidence_score (None when the frame lacks
\* it) and the columns response_0 .. response_{k-1}
DataFrame(score, responses) ==
    [kind |-> "returned", confidence_score |-> score, responses |-> responses]

ScoreColumns == {None} \cup {Some(c) : c \in CollabScores}

\* frames for analyze: any number of responses up to MaxSamples, whatever
\* number was requested
AnalyzeFrames ==
    {DataFrame(sc, rs) : sc \in ScoreColumns,
                         rs \in UNION {[1..k -> ResponsePool] : k \in 0..MaxSamples}}

\* frames for evaluate_prompt, which reads the score column only
GateFrames == {DataFrame(sc, <<>>) : sc \in ScoreColumns}

CollaboratorReturns(frames) ==
    /\ ext_reply.kind = "pending"
    /\ \E df \in frames : ext_reply' = df
    /\ UNCHANGED <<policy_call, rec_call, http, analysis, ext_calls>>
    /\ UNCHANGED <<detect_call, tasks, replies>>
    /\ UNCHANGED <<cli, bench, bands>>

CollaboratorRaises ==
    /\ ext_reply.kind = "pending"
    /\ \E e \in ErrorPool : ext_reply' = [kind |-> "raised", error |-> e]
    /\ UNCHANGED <<policy_call, rec_call, http, analysis, ext_calls>>
    /\ UNCHANGED <<detect_call, tasks, replies>>
    /\ UNCHANGED <<cli, bench, bands>>

---------------------------------------------------------------------------
(* One POST /evaluate exchange *)

Alphabet == {" ", "a"}
Prompts == UNION {[1..k -> Alphabet] : k \in 0..MaxPromptLen}

BodyPrompts == {None} \cup {Some(v) : v \in Prompts}
BodyMinConfidences ==
    {None} \cup {Some(x) : x \in {0 - 1, 0, LowBand, MediumBand, Unit, Unit + 1}}
BodyNumSamples ==
    {None} \cup {Some(x) : x \in {MinNumSamples - 1, MinNumSamples,
                                  MaxNumSamples, MaxNumSamples + 1}}

InitGate ==
    /\ \E v \in BodyPrompts, m \in BodyMinConfidences, n \in BodyNumSamples :
          http = [pc |-> "received",
                  body |-> [prompt |-> v, min_confidence |-> m, num_samples |-> n],
                  req |-> None, response |-> None]
    /\ policy_call = IdlePolicy
    /\ rec_call = IdleRec
    /\ analysis = IdleAnalysis
    /\ ext_calls = <<>>
    /\ ext_reply = NoReply
    /\ detect_call = IdleDetect
    /\ tasks = <<>>
    /\ replies = <<>>
    /\ cli = IdleCli
    /\ bench = IdleBench
    /\ bands = IdleBands

\* FastAPI builds the EvaluationRequest before the handler runs and answers
\* 422 itself when that fails
HttpValidate ==
    /\ http.pc = "received"
    /\ LET v == EvaluationRequest(http.body)
       IN  IF v.raised
           THEN http' = [http EXCEPT !.pc = "responded",
                            !.response = Some([status |-> StatusUnprocessable,
                                               detail |-> v.msg])]
           ELSE http' = [http EXCEPT !.pc = "handler", !.req = Some(v.value)]
    /\ UNCHANGED <<policy_call, rec_call, analysis, ext_calls, ext_reply>>
    /\ UNCHANGED <<detect_call, tasks, replies>>
    /\ UNCHANGED <<cli, bench, bands>>

\* evaluate -> evaluate_prompt -> await uq.generate_and_score(...)
EvaluatePromptCall ==
    /\ http.pc = "handler"
    /\ \E req \in http.req :
          ext_calls' = Append(ext_calls,
                              generate_and_score_request(req.prompt, req.num_samples))
    /\ ext_reply' = Pending
    /\ http' = [http EXCEPT !.pc = "awaiting"]
    /\ UNCHANGED <<policy_call, rec_call, analysis>>
    /\ UNCHANGED <<detect_call, tasks, replies>>
    /\ UNCHANGED <<cli, bench, bands>>

\* the rest of evaluate_prompt and of evaluate, once the await is over
EvaluateResume ==
    /\ http.pc = "awaiting"
    /\ ext_reply.kind \in {"returned", "raised"}
    /\ \E req \in http.req :
          http' = [http EXCEPT
                      !.pc = "responded",
                      !.response = Some(evaluate_response(
                                           evaluate_prompt_outcome(ext_reply), req))]
    /\ UNCHANGED <<policy_call, rec_call, analysis, ext_calls, ext_reply>>
    /\ UNCHANGED <<detect_call, tasks, replies>>
    /\ UNCHANGED <<cli, bench, bands>>

NextGate ==
    \/ HttpValidate
    \/ EvaluatePromptCall
    \/ CollaboratorReturns(GateFrames)
    \/ CollaboratorRaises
    \/ EvaluateResume

SpecGate == InitGate /\ [][NextGate]_vars

---------------------------------------------------------------------------
(* One UQLMAnalyzer.analyze(prompt, num_samples) invocation *)

\* one request per sample instead of one request for all of them
analyze_requests_per_sample(prompt, num_samples) ==
    [i \in 1..num_samples |-> generate_and_score_request(prompt, 1)]

\* the requests analyze sends to uq.generate_and_score
analyze_requests(prompt, num_samples) ==
    <<generate_and_score_request(prompt, num_samples)>>

\* float(df["confidence_score"].iloc[0])
extract_confidence(df) ==
    IF df.confidence_score = None
    THEN Raise("KeyError", Chars_confidence_score)
    ELSE Return(CHOOSE c \in df.confidence_score : TRUE)

\* the responses the frame has, however few, instead of num_samples of them
extract_responses_available(df, num_samples) ==
    Return(SubSeq(df.responses, 1, Min2(num_samples, Len(df.responses))))

\* the columns read from response_1 on: range(1, num_samples + 1)
extract_responses_from_one(df, num_samples) ==
    IF Len(df.responses) < num_samples + 1
    THEN Raise("KeyError", Chars_response_ \o IntText(Len(df.responses)) \o <<"'">>)
    ELSE Return(SubSeq(df.responses, 2, num_samples + 1))

\* [df[f"response_{i}"].iloc[0] for i in range(num_samples)]
extract_responses(df, num_samples) ==
    IF Len(df.responses) < num_samples
    THEN Raise("KeyError", Chars_response_ \o IntText(Len(df.responses)) \o <<"'">>)
    ELSE Return(SubSeq(df.responses, 1, num_samples))

\* CodeAnalysis(...) built from the locals of analyze
CodeAnalysis(frame) ==
    [prompt |-> frame.prompt,
     responses |-> frame.responses,
     confidence_score |-> frame.confidence,
     inconsistencies |-> frame.inconsistencies,
     consensus_parts |-> frame.consensus_parts,
     divergent_parts |-> frame.divergent_parts,
     recommendation |-> frame.recommendation,
     model_used |-> frame.model,
     num_samples |-> frame.num_samples]

\* an exception leaves analyze: nothing is returned
Fails(frame, type, msg) ==
    [frame EXCEPT !.pc = "failed", !.error = Some([type |-> type, msg |-> msg])]

AnalyzePrompts == {<<>>, <<" ">>, <<"a">>}

\* analyze is public and checks nothing: any prompt, any count
InitAnalyze ==
    /\ \E v \in AnalyzePrompts, n \in 0..MaxSamples :
          analysis = [IdleAnalysis EXCEPT !.pc = "called", !.prompt = v,
                                          !.num_samples = n]
    /\ policy_call = IdlePolicy
    /\ rec_call = IdleRec
    /\ http = IdleHttp
    /\ ext_calls = <<>>
    /\ ext_reply = NoReply
    /\ detect_call = IdleDetect
    /\ tasks = <<>>
    /\ replies = <<>>
    /\ cli = IdleCli
    /\ bench = IdleBench
    /\ bands = IdleBands

\* results = await self.uq.generate_and_score(prompts=[prompt], num_responses=num_samples)
AnalyzeCall ==
    /\ analysis.pc = "called"
    /\ ext_calls' = ext_calls \o analyze_requests(analysis.prompt, analysis.num_samples)
    /\ ext_reply' = Pending
    /\ analysis' = [analysis EXCEPT !.pc = "awaiting"]
    /\ UNCHANGED <<policy_call, rec_call, http>>
    /\ UNCHANGED <<detect_call, tasks, replies>>
    /\ UNCHANGED <<cli, bench, bands>>

\* the await is over: the collaborator's exception leaves analyze as it is,
\* or the frame is read (a missing column raises KeyError)
AnalyzeResume ==
    /\ analysis.pc = "awaiting"
    /\ ext_reply.kind \in {"returned", "raised"}
    /\ IF ext_reply.kind = "raised"
       THEN analysis' = Fails(analysis, ext_reply.error.type, ext_reply.error.msg)
       ELSE LET c == extract_confidence(ext_reply)
                r == extract_responses(ext_reply, analysis.num_samples)
            IN  IF c.raised THEN analysis' = Fails(analysis, c.type, c.msg)
                ELSE IF r.raised THEN analysis' = Fails(analysis, r.type, r.msg)
                ELSE analysis' = [analysis EXCEPT !.pc = "inconsistencies",
                                                  !.confidence = c.value,
                                                  !.responses = r.value]
    /\ UNCHANGED <<policy_call, rec_call, http, ext_calls, ext_reply>>
    /\ UNCHANGED <<detect_call, tasks, replies>>
    /\ UNCHANGED <<cli, bench, bands>>

\* inconsistencies = self._find_inconsistencies(responses)
AnalyzeInconsistencies ==
    /\ analysis.pc = "inconsistencies"
    /\ LET r == _find_inconsistencies(analysis.responses)
       IN  IF r.raised THEN analysis' = Fails(analysis, r.type, r.msg)
           ELSE \E incs \in r.value :
                   analysis' = [analysis EXCEPT !.pc = "consensus",
                                                !.inconsistencies = incs]
    /\ UNCHANGED <<policy_call, rec_call, http, ext_calls, ext_reply>>
    /\ UNCHANGED <<detect_call, tasks, replies>>
    /\ UNCHANGED <<cli, bench, bands>>

\* consensus_parts = self._find_consensus(responses)
AnalyzeConsensus ==
    /\ analysis.pc = "consensus"
    /\ \E parts \in _find_consensus(analysis.responses) :
          analysis' = [analysis EXCEPT !.pc = "divergence", !.consensus_parts = parts]
    /\ UNCHANGED <<policy_call, rec_call, http, ext_calls, ext_reply>>
    /\ UNCHANGED <<detect_call, tasks, replies>>
    /\ UNCHANGED <<cli, bench, bands>>

\* divergent_parts = self._find_divergence(responses)
AnalyzeDivergence ==
    /\ analysis.pc = "divergence"
    /\ analysis' = [analysis EXCEPT
                       !.pc = "recommendation",
                       !.divergent_parts = _find_divergence(analysis.responses)]
    /\ UNCHANGED <<policy_call, rec_call, http, ext_calls, ext_reply>>
    /\ UNCHANGED <<detect_call, tasks, replies>>
    /\ UNCHANGED <<cli, bench, bands>>

\* recommendation = self._generate_recommendation(confidence, inconsistencies)
AnalyzeRecommendation ==
    /\ analysis.pc = "recommendation"
    /\ analysis' = [analysis EXCEPT
                       !.pc = "construct",
                       !.recommendation =
                           _generate_recommendation(analysis.confidence,
                                                    analysis.inconsistencies)]
    /\ UNCHANGED <<policy_call, rec_call, http, ext_calls, ext_reply>>
    /\ UNCHANGED <<detect_call, tasks, replies>>
    /\ UNCHANGED <<cli, bench, bands>>

\* return CodeAnalysis(...)
AnalyzeReturn ==
    /\ analysis.pc = "construct"
    /\ analysis' = [analysis EXCEPT !.pc = "done",
                                    !.result = Some(CodeAnalysis(analysis))]
    /\ UNCHANGED <<policy_call, rec_call, http, ext_calls, ext_reply>>
    /\ UNCHANGED <<detect_call, tasks, replies>>
    /\ UNCHANGED <<cli, bench, bands>>

Next ==
    \/ AnalyzeCall
    \/ CollaboratorReturns(AnalyzeFrames)
    \/ CollaboratorRaises
    \/ AnalyzeResume
    \/ AnalyzeInconsistencies
    \/ AnalyzeConsensus
    \/ AnalyzeDivergence
    \/ AnalyzeRecommendation
    \/ AnalyzeReturn

Spec == InitAnalyze /\ [][Next]_vars

---------------------------------------------------------------------------
(* A direct call of one detector method of UQLMAnalyzer *)

\* the responses of the collaborator, an empty response, and a response
\* whose one word has exactly five characters
DetectPool ==
    ResponsePool \cup {<<>>, <<"t", "o", "k", "e", "n">>}

DetectLists == UNION {[1..k -> DetectPool] : k \in 0..MaxSamples}

DetectMethods == {"_find_inconsistencies", "_find_consensus", "_find_divergence"}

InitDetect ==
    /\ \E m \in DetectMethods, rs \in DetectLists :
          detect_call = [pc |-> "called", method |-> m, responses |-> rs,
                         outcome |-> None]
    /\ policy_call = IdlePolicy
    /\ rec_call = IdleRec
    /\ http = IdleHttp
    /\ analysis = IdleAnalysis
    /\ ext_calls = <<>>
    /\ ext_reply = NoReply
    /\ tasks = <<>>
    /\ replies = <<>>
    /\ cli = IdleCli
    /\ bench = IdleBench
    /\ bands = IdleBands

\* self._find_inconsistencies(responses)
FindInconsistenciesCall ==
    /\ detect_call.pc = "called"
    /\ detect_call.method = "_find_inconsistencies"
    /\ LET r == _find_inconsistencies(detect_call.responses)
       IN  IF r.raised
           THEN detect_call' = [detect_call EXCEPT !.pc = "raised", !.outcome = Some(r)]
           ELSE \E incs \in r.value :
                   detect_call' = [detect_call EXCEPT !.pc = "returned",
                                                      !.outcome = Some(Return(incs))]
    /\ UNCHANGED <<policy_call, rec_call, http, analysis, ext_calls, ext_reply>>
    /\ UNCHANGED <<tasks, replies>>
    /\ UNCHANGED <<cli, bench, bands>>

\* self._find_consensus(responses)
FindConsensusCall ==
    /\ detect_call.pc = "called"
    /\ detect_call.method = "_find_consensus"
    /\ \E parts \in _find_consensus(detect_call.responses) :
          detect_call' = [detect_call EXCEPT !.pc = "returned",
                                             !.outcome = Some(Return(parts))]
    /\ UNCHANGED <<policy_call, rec_call, http, analysis, ext_calls, ext_reply>>
    /\ UNCHANGED <<tasks, replies>>
    /\ UNCHANGED <<cli, bench, bands>>

\* self._find_divergence(responses)
FindDivergenceCall ==
    /\ detect_call.pc = "called"
    /\ detect_call.method = "_find_divergence"
    /\ detect_call' = [detect_call EXCEPT
                          !.pc = "returned",
                          !.outcome = Some(Return(_find_divergence(detect_call.responses)))]
    /\ UNCHANGED <<policy_call, rec_call, http, analysis, ext_calls, ext_reply>>
    /\ UNCHANGED <<tasks, replies>>
    /\ UNCHANGED <<cli, bench, bands>>

NextDetect ==
    \/ FindInconsistenciesCall
    \/ FindConsensusCall
    \/ FindDivergenceCall

SpecDetect == InitDetect /\ [][NextDetect]_vars

---------------------------------------------------------------------------
(* Invocations of analyze and of evaluate_prompt in flight together.  An   *)
(* invocation is a coroutine: it runs without interruption up to its one   *)
(* await, the call of uq.generate_and_score, and again from the moment     *)
(* that call is over to its return.  Its frame holds its arguments and     *)
(* locals; the analyzer's attributes and the module-scope llm and uq of    *)
(* the evaluator are assigned once, before any invocation, and only read.  *)

\* analyze from its await to its end: what it raises or returns for the
\* outcome of its call; the lists built from Python sets have no fixed order
analyze_outcomes(prompt, num_samples, reply) ==
    IF reply.kind = "raised" THEN {Raise(reply.error.type, reply.error.msg)}
    ELSE
    LET c == extract_confidence(reply)
        r == extract_responses(reply, num_samples)
    IN  IF c.raised THEN {c}
        ELSE IF r.raised THEN {r}
        ELSE
        LET found == _find_inconsistencies(r.value)
        IN  IF found.raised THEN {found}
            ELSE {Return(CodeAnalysis(
                      [model |-> IdleAnalysis.model,
                       prompt |-> prompt,
                       num_samples |-> num_samples,
                       confidence |-> c.value,
                       responses |-> r.value,
                       inconsistencies |-> incs,
                       consensus_parts |-> parts,
                       divergent_parts |-> _find_divergence(r.value),
                       recommendation |-> _generate_recommendation(c.value, incs)]))
                  : incs \in found.value, parts \in _find_consensus(r.value)}

\* what an invocation of either kind raises or returns once its call is over
task_outcomes(task, reply) ==
    IF task.kind = "analyze"
    THEN analyze_outcomes(task.prompt, task.num_samples, reply)
    ELSE {evaluate_prompt_outcome(reply)}

\* the value of the await taken from the call issued last, whoever issued it
awaited_latest(call) == replies[Len(replies)]

\* results = await uq.generate_and_score(...): the outcome of this
\* invocation's own call
awaited(call) == replies[call]

ConcKinds == {"analyze", "evaluate_prompt"}
ConcPrompts == {<<"a">>, <<" ">>}
ConcSamples == {MinNumSamples - 1, MinNumSamples}

\* two replies that differ in score and in responses, the second with a
\* single response, and one exception
ConcFrames ==
    {DataFrame(Some(LowBand), <<<<"a", "\n", "b">>, <<"t", "o", "k", "e", "n", "s">>>>),
     DataFrame(Some(MediumBand), <<<<"s", "e", "c", "u", "r", "e">>>>)}

ConcErrors == {e \in ErrorPool : e.type = "TimeoutError"}

ConcTasks ==
    {[kind |-> k, pc |-> "called", prompt |-> v, num_samples |-> n, call |-> 0,
      outcome |-> None] : k \in ConcKinds, v \in ConcPrompts, n \in ConcSamples}

InitConc ==
    /\ \E n \in 1..MaxTasks : tasks \in [1..n -> ConcTasks]
    /\ replies = <<>>
    /\ ext_calls = <<>>
    /\ ext_reply = NoReply
    /\ policy_call = IdlePolicy
    /\ rec_call = IdleRec
    /\ http = IdleHttp
    /\ analysis = IdleAnalysis
    /\ detect_call = IdleDetect
    /\ cli = IdleCli
    /\ bench = IdleBench
    /\ bands = IdleBands

\* invocation t runs up to its await: the call is issued
TaskCall(t) ==
    /\ tasks[t].pc = "called"
    /\ ext_calls' = Append(ext_calls,
                           generate_and_score_request(tasks[t].prompt,
                                                      tasks[t].num_samples))
    /\ replies' = Append(replies, Pending)
    /\ tasks' = [tasks EXCEPT ![t].pc = "awaiting", ![t].call = Len(ext_calls) + 1]
    /\ UNCHANGED <<policy_call, rec_call, http, analysis, ext_reply, detect_call>>
    /\ UNCHANGED <<cli, bench, bands>>

\* call k of the collaborator is over: it returned a frame or raised
CallEnds(k) ==
    /\ replies[k] = Pending
    /\ \/ \E df \in ConcFrames : replies' = [replies EXCEPT ![k] = df]
       \/ \E e \in ConcErrors :
             replies' = [replies EXCEPT ![k] = [kind |-> "raised", error |-> e]]
    /\ UNCHANGED <<policy_call, rec_call, http, analysis, ext_calls, ext_reply>>
    /\ UNCHANGED <<detect_call, tasks>>
    /\ UNCHANGED <<cli, bench, bands>>

\* invocation t runs from its await to its end
TaskResume(t) ==
    /\ tasks[t].pc = "awaiting"
    /\ awaited(tasks[t].call) # Pending
    /\ \E o \in task_outcomes(tasks[t], awaited(tasks[t].call)) :
          tasks' = [tasks EXCEPT ![t].pc = IF o.raised THEN "failed" ELSE "done",
                                 ![t].outcome = Some(o)]
    /\ UNCHANGED <<policy_call, rec_call, http, analysis, ext_calls, ext_reply>>
    /\ UNCHANGED <<detect_call, replies>>
    /\ UNCHANGED <<cli, bench, bands>>

NextConc ==
    \/ \E t \in DOMAIN tasks : TaskCall(t)
    \/ \E k \in DOMAIN replies : CallEnds(k)
    \/ \E t \in DOMAIN tasks : TaskResume(t)

SpecConc == InitConc /\ [][NextConc]_vars

(***************************************************************************)
(* The uqlm-guard command line: review, batch and compare.  A command      *)
(* runs in one process; its frame cli holds the environment's              *)
(* OPENAI_API_KEY (absent, empty or a key), the options, what was printed  *)
(* through print_error, the analyzers constructed, the results gathered    *)
(* and the exit code of the process.                                       *)
(***************************************************************************)
ErrorLabel ==
    <<"E", "r", "r", "o", "r", ":", " ">>
ReviewKeyErrorMsg ==
    <<"O", "P", "E", "N", "A", "I", "_", "A", "P", "I", "_", "K", "E", "Y", " ", "n", "o", "t", " ", "f", "o", "u", "n", "d", " ", "i", "n", " ", "e", "n", "v", "i", "r", "o", "n", "m", "e", "n", "t", " ", "v", "a", "r", "i", "a", "b", "l", "e", "s", ".", "\n", "P", "l", "e", "a", "s", "e", " ", "s", "e", "t", " ", "i", "t", " ", "w", "i", "t", "h", ":", " ", "e", "x", "p", "o", "r", "t", " ", "O", "P", "E", "N", "A", "I", "_", "A", "P", "I", "_", "K", "E", "Y", "=", "y", "o", "u", "r", "_", "k", "e", "y", "_", "h", "e", "r", "e">>
KeyErrorMsg ==
    <<"O", "P", "E", "N", "A", "I", "_", "A", "P", "I", "_", "K", "E", "Y", " ", "n", "o", "t", " ", "f", "o", "u", "n", "d", " ", "i", "n", " ", "e", "n", "v", "i", "r", "o", "n", "m", "e", "n", "t", " ", "v", "a", "r", "i", "a", "b", "l", "e", "s">>
SamplesErrorMsg ==
    <<"N", "u", "m", "b", "e", "r", " ", "o", "f", " ", "s", "a", "m", "p", "l", "e", "s", " ", "m", "u", "s", "t", " ", "b", "e", " ", "b", "e", "t", "w", "e", "e", "n", " ", "2", " ", "a", "n", "d", " ", "1", "0">>
NoPromptsPrefix ==
    <<"N", "o", " ", "p", "r", "o", "m", "p", "t", "s", " ", "f", "o", "u", "n", "d", " ", "i", "n", " ">>
HighLevel ==
    <<"H", "I", "G", "H", " ", "C", "O", "N", "F", "I", "D", "E", "N", "C", "E">>
MediumLevel ==
    <<"M", "E", "D", "I", "U", "M", " ", "C", "O", "N", "F", "I", "D", "E", "N", "C", "E">>
LowLevel ==
    <<"L", "O", "W", " ", "C", "O", "N", "F", "I", "D", "E", "N", "C", "E">>
VeryLowLevel ==
    <<"V", "E", "R", "Y", " ", "L", "O", "W", " ", "C", "O", "N", "F", "I", "D", "E", "N", "C", "E">>

\* OutputFormatter.print_error: the text that reaches the terminal, the
\* colour markup and the leading mark left out
print_error(message) == ErrorLabel \o message

\* not os.getenv("OPENAI_API_KEY"): the variable is absent or empty
getenv_falsy(value) == value = None \/ value = Some(<<>>)

\* OutputFormatter.print_confidence_score: the level shown above the score
print_confidence_score_strict(score, recommendation) ==
    [level |-> IF score > HighBand THEN HighLevel
               ELSE IF score >= MediumBand THEN MediumLevel
               ELSE IF score >= LowBand THEN LowLevel
               ELSE VeryLowLevel,
     score |-> score,
     recommendation |-> recommendation]

print_confidence_score(score, recommendation) ==
    [level |-> IF score >= HighBand THEN HighLevel
               ELSE IF score >= MediumBand THEN MediumLevel
               ELSE IF score >= LowBand THEN LowLevel
               ELSE VeryLowLevel,
     score |-> score,
     recommendation |-> recommendation]

\* what each command does before it starts its coroutine: the error it
\* prints and returns on, or None
review_prologue(api_key, samples) ==
    IF getenv_falsy(api_key) THEN Some(print_error(ReviewKeyErrorMsg))
    ELSE IF samples < MinNumSamples \/ samples > MaxNumSamples
         THEN Some(print_error(SamplesErrorMsg))
    ELSE None

\* prompts = [line.strip() for line in f if line.strip()]
batch_prompts(lines) ==
    SelectSeq([i \in DOMAIN lines |-> strip(lines[i])], LAMBDA p : p # <<>>)

batch_prologue(api_key, file_path, lines) ==
    IF getenv_falsy(api_key) THEN Some(print_error(KeyErrorMsg))
    ELSE IF batch_prompts(lines) = <<>>
         THEN Some(print_error(NoPromptsPrefix \o file_path))
    ELSE None

\* compare without its check of the environment
compare_prologue_unchecked(api_key) == None

compare_prologue(api_key) ==
    IF getenv_falsy(api_key) THEN Some(print_error(KeyErrorMsg)) ELSE None

cli_prologue(frame) ==
    IF frame.command = "review" THEN review_prologue(frame.api_key, frame.samples)
    ELSE IF frame.command = "batch" THEN batch_prologue(frame.api_key, frame.file_path, frame.lines)
    ELSE compare_prologue(frame.api_key)

\* the calls of analyze the command is going to make, in order: one for
\* review, one per prompt for batch, one per model for compare
cli_items(frame) ==
    IF frame.command = "review"
    THEN <<[prompt |-> frame.prompt, model |-> frame.models[1]]>>
    ELSE IF frame.command = "batch"
    THEN LET prompts == batch_prompts(frame.lines)
         IN  [i \in DOMAIN prompts |-> [prompt |-> prompts[i], model |-> frame.models[1]]]
    ELSE [i \in DOMAIN frame.models |-> [prompt |-> frame.prompt, model |-> frame.models[i]]]

\* the summary of run_batch: the average as <<sum, count>> and the counters
batch_summary(results) ==
    [total |-> Len(results),
     avg_confidence |-> <<SumSeq([i \in DOMAIN results |-> results[i].confidence]),
                          Len(results)>>,
     high_conf |-> Cardinality({i \in DOMAIN results : results[i].confidence >= HighBand}),
     medium_conf |-> Cardinality({i \in DOMAIN results :
                                     /\ MediumBand <= results[i].confidence
                                     /\ results[i].confidence < HighBand}),
     low_conf |-> Cardinality({i \in DOMAIN results : results[i].confidence < MediumBand})]

\* sorted(results.items(), key=score, reverse=True)[0]: the first model,
\* in the order tested, among those with the highest score
compare_summary(results) ==
    LET best == CHOOSE i \in DOMAIN results :
                    /\ \A j \in DOMAIN results : results[j].confidence <= results[i].confidence
                    /\ \A j \in 1..(i - 1) : results[j].confidence < results[i].confidence
    IN  [winner |-> results[best].model, score |-> results[best].confidence]

cli_summary(command, results) ==
    IF command = "review"
    THEN print_confidence_score(results[1].confidence, results[1].recommendation)
    ELSE IF command = "batch" THEN batch_summary(results)
    ELSE compare_summary(results)

CliCommands == {"review", "batch", "compare"}
CliKeys == {None, Some(<<>>), Some(<<"s", "k">>)}
CliSamples == {MinNumSamples - 1, MinNumSamples, MaxNumSamples, MaxNumSamples + 1}
\* lines of the prompts file: a prompt, a blank line, a prompt with blanks
\* around it
CliFiles ==
    UNION {[1..n -> {<<"a", "\n">>, <<" ", "\n">>, <<" ", "b", " ", "\n">>}] : n \in 0..MaxLines}
\* replies of the collaborator: one frame per band and one exception
CliReplies ==
    ConcFrames
    \cup {DataFrame(Some(HighBand), <<<<"a">>, <<"a">>>>)}
    \cup {[kind |-> "raised", error |-> e] : e \in ConcErrors}

InitCli ==
    /\ \E c \in CliCommands, k \in CliKeys, n \in CliSamples, f \in CliFiles :
          /\ c # "batch" => f = <<>>
          /\ cli = [pc |-> "invoked", command |-> c, api_key |-> k, samples |-> n,
                    prompt |-> IF c = "batch" THEN <<>> ELSE <<"a">>,
                    models |-> IF c = "compare" THEN <<"gpt-4o-mini", "gpt-4o">>
                              ELSE <<"gpt-4o-mini">>,
                    file_path |-> IF c = "batch" THEN <<"p", ".", "t", "x", "t">> ELSE <<>>,
                    lines |-> f, items |-> <<>>, printed |-> <<>>, analyzers |-> 0,
                    results |-> <<>>, summary |-> None, exit_code |-> None]
    /\ ext_calls = <<>>
    /\ ext_reply = NoReply
    /\ policy_call = IdlePolicy
    /\ rec_call = IdleRec
    /\ http = IdleHttp
    /\ analysis = IdleAnalysis
    /\ detect_call = IdleDetect
    /\ tasks = <<>>
    /\ replies = <<>>
    /\ bench = IdleBench
    /\ bands = IdleBands

\* the command function up to asyncio.run: it prints an error and returns,
\* or goes on to its coroutine
CliStart ==
    /\ cli.pc = "invoked"
    /\ LET err == cli_prologue(cli)
       IN  IF err # None
           THEN cli' = [cli EXCEPT !.pc = "returned",
                                   !.printed = <<CHOOSE m \in err : TRUE>>,
                                   !.exit_code = Some(0)]
           ELSE cli' = [cli EXCEPT !.pc = "running", !.items = cli_items(cli)]
    /\ UNCHANGED <<policy_call, rec_call, http, analysis, ext_calls, ext_reply>>
    /\ UNCHANGED <<detect_call, tasks, replies, bench, bands>>

\* one await analyzer.analyze(...) of the coroutine and the lines after it;
\* UQLMAnalyzer(...) is constructed once by review and batch, before the
\* first call, and once per model by compare:
\* the result is kept, or the exception leaves the coroutine, asyncio.run
\* and the command, and the process ends with a traceback
CliAnalyze ==
    /\ cli.pc = "running"
    /\ Len(cli.results) < Len(cli.items)
    /\ LET index == Len(cli.results) + 1
           item == cli.items[index]
           made == IF cli.command = "compare" \/ index = 1
                   THEN cli.analyzers + 1 ELSE cli.analyzers
       IN  /\ ext_calls' = Append(ext_calls,
                                  generate_and_score_request(item.prompt, cli.samples))
           /\ \E reply \in CliReplies :
              \E o \in analyze_outcomes(item.prompt, cli.samples, reply) :
                 IF o.raised
                 THEN cli' = [cli EXCEPT !.pc = "crashed", !.analyzers = made,
                                         !.exit_code = Some(1)]
                 ELSE cli' = [cli EXCEPT
                                 !.analyzers = made,
                                 !.results = Append(cli.results,
                                     [prompt |-> item.prompt,
                                      model |-> item.model,
                                      confidence |-> o.value.confidence_score,
                                      recommendation |-> o.value.recommendation])]
    /\ UNCHANGED <<policy_call, rec_call, http, analysis, ext_reply>>
    /\ UNCHANGED <<detect_call, tasks, replies, bench, bands>>

\* the loop is over: the summary is printed and the command returns
CliFinish ==
    /\ cli.pc = "running"
    /\ Len(cli.results) = Len(cli.items)
    /\ cli' = [cli EXCEPT !.pc = "returned",
                          !.summary = Some(cli_summary(cli.command, cli.results)),
                          !.exit_code = Some(0)]
    /\ UNCHANGED <<policy_call, rec_call, http, analysis, ext_calls, ext_reply>>
    /\ UNCHANGED <<detect_call, tasks, replies, bench, bands>>

NextCli == CliStart \/ CliAnalyze \/ CliFinish

SpecCli == InitCli /\ [][NextCli]_vars

(***************************************************************************)
(* run_benchmark working through one category of its prompts file.  The    *)
(* dictionary category_results is a record; a key a dictionary may lack    *)
(* is a field holding None or Some(value); average_confidence is the       *)
(* fraction <<sum, count>>, 0.0 being <<0, 1>>.                            *)
(***************************************************************************)
category_results_init(prompts) ==
    [prompts |-> <<>>,
     total |-> Len(prompts),
     high_confidence |-> 0,
     medium_confidence |-> 0,
     low_confidence |-> 0,
     average_confidence |-> <<0, 1>>,
     flagged_issues |-> 0]

result_record(prompt, a) ==
    [prompt |-> prompt,
     confidence |-> Some(a.confidence_score),
     inconsistencies |-> Some(Len(a.inconsistencies)),
     recommendation |-> Some(a.recommendation),
     error |-> None]

error_record(prompt, e) ==
    [prompt |-> prompt, confidence |-> None, inconsistencies |-> None,
     recommendation |-> None, error |-> Some(e.msg)]

\* the body of the try block once analyze has returned a
categorize(cr, prompt, a) ==
    LET c == a.confidence_score
    IN  [prompts |-> Append(cr.prompts, result_record(prompt, a)),
         total |-> cr.total,
         high_confidence |-> cr.high_confidence + (IF c >= HighBand THEN 1 ELSE 0),
         medium_confidence |-> cr.medium_confidence
                               + (IF c < HighBand /\ c >= MediumBand THEN 1 ELSE 0),
         low_confidence |-> cr.low_confidence + (IF c < MediumBand THEN 1 ELSE 0),
         average_confidence |-> cr.average_confidence,
         flagged_issues |-> cr.flagged_issues
                            + (IF Len(a.inconsistencies) > 0 THEN 1 ELSE 0)]

\* a handler that counts the failed prompt as one of low confidence
on_exception_counted_low(cr, prompt, e) ==
    [prompts |-> Append(cr.prompts, error_record(prompt, e)),
     total |-> cr.total,
     high_confidence |-> cr.high_confidence,
     medium_confidence |-> cr.medium_confidence,
     low_confidence |-> cr.low_confidence + 1,
     average_confidence |-> cr.average_confidence,
     flagged_issues |-> cr.flagged_issues]

\* except Exception as e: the error record is all that is kept
on_exception(cr, prompt, e) ==
    [prompts |-> Append(cr.prompts, error_record(prompt, e)),
     total |-> cr.total,
     high_confidence |-> cr.high_confidence,
     medium_confidence |-> cr.medium_confidence,
     low_confidence |-> cr.low_confidence,
     average_confidence |-> cr.average_confidence,
     flagged_issues |-> cr.flagged_issues]

\* if confidences: average_confidence = sum(confidences) / len(confidences)
with_average(cr, confidences) ==
    IF confidences = <<>> THEN cr
    ELSE [cr EXCEPT !.average_confidence = <<SumSeq(confidences), Len(confidences)>>]

BenchPrompts == UNION {[1..n -> {<<"a">>, <<"b">>}] : n \in 0..MaxPrompts}
BenchSamples == {MinNumSamples - 1, MinNumSamples}

InitBench ==
    /\ \E ps \in BenchPrompts, n \in BenchSamples :
          bench = [pc |-> "category", prompts |-> ps, num_samples |-> n,
                   confidences |-> <<>>, category_results |-> None, stored |-> None]
    /\ ext_calls = <<>>
    /\ ext_reply = NoReply
    /\ policy_call = IdlePolicy
    /\ rec_call = IdleRec
    /\ http = IdleHttp
    /\ analysis = IdleAnalysis
    /\ detect_call = IdleDetect
    /\ tasks = <<>>
    /\ replies = <<>>
    /\ cli = IdleCli
    /\ bands = IdleBands

\* the category is entered: its record and the list of confidences are set up
BenchCategory ==
    /\ bench.pc = "category"
    /\ bench' = [bench EXCEPT !.pc = "loop",
                              !.category_results = Some(category_results_init(bench.prompts)),
                              !.confidences = <<>>]
    /\ UNCHANGED <<policy_call, rec_call, http, analysis, ext_calls, ext_reply>>
    /\ UNCHANGED <<detect_call, tasks, replies, cli, bands>>

\* one turn of the loop over the prompts: analyze is awaited inside try, and
\* whatever it raises is caught
BenchPrompt ==
    /\ bench.pc = "loop"
    /\ \E cr \in bench.category_results :
          /\ Len(cr.prompts) < Len(bench.prompts)
          /\ LET prompt == bench.prompts[Len(cr.prompts) + 1]
             IN  /\ ext_calls' = Append(ext_calls,
                                        generate_and_score_request(prompt, bench.num_samples))
                 /\ \E reply \in CliReplies :
                    \E o \in analyze_outcomes(prompt, bench.num_samples, reply) :
                       IF o.raised
                       THEN bench' = [bench EXCEPT
                                !.category_results = Some(on_exception(cr, prompt, o))]
                       ELSE bench' = [bench EXCEPT
                                !.confidences = Append(bench.confidences,
                                                       o.value.confidence_score),
                                !.category_results = Some(categorize(cr, prompt, o.value))]
    /\ UNCHANGED <<policy_call, rec_call, http, analysis, ext_reply>>
    /\ UNCHANGED <<detect_call, tasks, replies, cli, bands>>

\* the loop is over: the average is filled in and the category is stored
BenchStore ==
    /\ bench.pc = "loop"
    /\ \E cr \in bench.category_results :
          /\ Len(cr.prompts) = Len(bench.prompts)
          /\ bench' = [bench EXCEPT !.pc = "stored",
                                    !.stored = Some(with_average(cr, bench.confidences))]
    /\ UNCHANGED <<policy_call, rec_call, http, analysis, ext_calls, ext_reply>>
    /\ UNCHANGED <<detect_call, tasks, replies, cli, bands>>

NextBench == BenchCategory \/ BenchPrompt \/ BenchStore

SpecBench == InitBench /\ [][NextBench]_vars

(***************************************************************************)
(* One confidence score handed to each consumer that sorts scores into     *)
(* levels: _generate_recommendation, the formatter, the summary of the     *)
(* batch command, the counters of run_benchmark and the policy of the      *)
(* gate at its default threshold.                                          *)
(***************************************************************************)
InitBands ==
    /\ \E c \in RecScores, incs \in IncLists :
          bands = [pc |-> "scored", score |-> c, inconsistencies |-> incs,
                   recommendation |-> None, level |-> None, batch |-> None,
                   bench |-> None, gate |-> None]
    /\ ext_calls = <<>>
    /\ ext_reply = NoReply
    /\ policy_call = IdlePolicy
    /\ rec_call = IdleRec
    /\ http = IdleHttp
    /\ analysis = IdleAnalysis
    /\ detect_call = IdleDetect
    /\ tasks = <<>>
    /\ replies = <<>>
    /\ cli = IdleCli
    /\ bench = IdleBench

\* analyze composes the recommendation of the score
BandsRecommend ==
    /\ bands.pc = "scored"
    /\ bands.recommendation = None
    /\ bands' = [bands EXCEPT !.recommendation =
                    Some(_generate_recommendation(bands.score, bands.inconsistencies))]
    /\ UNCHANGED <<policy_call, rec_call, http, analysis, ext_calls, ext_reply>>
    /\ UNCHANGED <<detect_call, tasks, replies, cli, bench>>

\* review shows the score
BandsFormat ==
    /\ bands.pc = "scored"
    /\ bands.recommendation # None
    /\ bands.level = None
    /\ bands' = [bands EXCEPT !.level =
                    Some(print_confidence_score(bands.score,
                             CHOOSE r \in bands.recommendation : TRUE).level)]
    /\ UNCHANGED <<policy_call, rec_call, http, analysis, ext_calls, ext_reply>>
    /\ UNCHANGED <<detect_call, tasks, replies, cli, bench>>

\* batch summarises a run whose one result has the score
BandsBatch ==
    /\ bands.pc = "scored"
    /\ bands.batch = None
    /\ bands' = [bands EXCEPT !.batch =
                    Some(batch_summary(<<[confidence |-> bands.score]>>))]
    /\ UNCHANGED <<policy_call, rec_call, http, analysis, ext_calls, ext_reply>>
    /\ UNCHANGED <<detect_call, tasks, replies, cli, bench>>

\* run_benchmark counts one analysis with the score
BandsBench ==
    /\ bands.pc = "scored"
    /\ bands.recommendation # None
    /\ bands.bench = None
    /\ bands' = [bands EXCEPT !.bench =
                    Some(categorize(category_results_init(<<<<"a">>>>), <<"a">>,
                                    [confidence_score |-> bands.score,
                                     inconsistencies |-> bands.inconsistencies,
                                     recommendation |->
                                         CHOOSE r \in bands.recommendation : TRUE]))]
    /\ UNCHANGED <<policy_call, rec_call, http, analysis, ext_calls, ext_reply>>
    /\ UNCHANGED <<detect_call, tasks, replies, cli, bench>>

\* the gate applies its policy with the default min_confidence
BandsGate ==
    /\ bands.pc = "scored"
    /\ bands.gate = None
    /\ bands' = [bands EXCEPT !.gate =
                    Some(enforce_confidence_threshold(bands.score,
                                                      DefaultMinConfidence).passed)]
    /\ UNCHANGED <<policy_call, rec_call, http, analysis, ext_calls, ext_reply>>
    /\ UNCHANGED <<detect_call, tasks, replies, cli, bench>>

NextBands == BandsRecommend \/ BandsFormat \/ BandsBatch \/ BandsBench \/ BandsGate

SpecBands == InitBands /\ [][NextBands]_vars

---------------------------------------------------------------------------
(* Properties of the policy function *)

StartsWith(text, prefix) ==
    /\ Len(text) >= Len(prefix)
    /\ SubSeq(text, 1, Len(prefix)) = prefix

DigitChars == {Digit[i] : i \in 1..10}
DigitValue(c) == CHOOSE d \in 0..9 : Digit[d + 1] = c

\* text has the shape d.dd
IsTwoDecimals(text) ==
    /\ Len(text) = 4
    /\ text[1] \in DigitChars
    /\ text[2] = "."
    /\ text[3] \in DigitChars
    /\ text[4] \in DigitChars

TwoDecimalsValue(text) ==
    100 * DigitValue(text[1]) + 10 * DigitValue(text[3]) + DigitValue(text[4])

\* text is a two-decimal rendering of n: it has two decimals and lies
\* within half a hundredth of n
Renders(text, n) ==
    /\ IsTwoDecimals(text)
    /\ 10 * TwoDecimalsValue(text) - n <= 5
    /\ n - 10 * TwoDecimalsValue(text) <= 5

\* C1: a call of enforce_confidence_threshold returns passed = TRUE exactly
\* when score >= threshold (so score = threshold passes), and its reason is
\* None exactly when passed is TRUE.
C1_PassedIffAtLeastThreshold ==
    policy_call.pc = "returned" =>
        /\ policy_call.passed <=> (policy_call.score >= policy_call.threshold)
        /\ (policy_call.reason = None) <=> policy_call.passed

C1_Witness ==
    /\ policy_call.pc = "returned"
    /\ policy_call.score = policy_call.threshold
    /\ policy_call.score = MediumBand
    /\ policy_call.passed
    /\ policy_call.reason = None

\* C2: when enforce_confidence_threshold fails, its reason is the text
\* "Output confidence S is below required threshold T" where S and T are
\* the score and the threshold written with exactly two decimals, each
\* within half a hundredth of the number it renders.
C2_ReasonRendersBothNumbers ==
    (policy_call.pc = "returned" /\ policy_call.score < policy_call.threshold) =>
        /\ Cardinality(policy_call.reason) = 1
        /\ \A m \in policy_call.reason :
              LET a == Len(PolicyPrefix)
                  b == a + 4
                  c == b + Len(PolicyMiddle)
              IN  /\ Len(m) = c + 4
                  /\ SubSeq(m, 1, a) = PolicyPrefix
                  /\ Renders(SubSeq(m, a + 1, b), policy_call.score)
                  /\ SubSeq(m, b + 1, c) = PolicyMiddle
                  /\ Renders(SubSeq(m, c + 1, c + 4), policy_call.threshold)

C2_Witness ==
    /\ policy_call.pc = "returned"
    /\ policy_call.score = 595
    /\ policy_call.threshold = MediumBand
    /\ policy_call.reason =
          Some(PolicyPrefix \o <<"0", ".", "5", "9">>
               \o PolicyMiddle \o <<"0", ".", "6", "0">>)

---------------------------------------------------------------------------
(* Properties of the POST /evaluate exchange *)

AllWhitespace(text) == \A i \in DOMAIN text : text[i] \in Whitespace

\* the min_confidence of the request: the body's, or the default
RequestedMinConfidence ==
    IF http.body.min_confidence = None THEN DefaultMinConfidence
    ELSE CHOOSE x \in http.body.min_confidence : TRUE

BodyInvalid ==
    \/ http.body.prompt = None
    \/ \E v \in http.body.prompt : AllWhitespace(v)
    \/ \E x \in http.body.min_confidence : x < 0 \/ x > Unit
    \/ \E n \in http.body.num_samples : n < MinNumSamples \/ n > MaxNumSamples

EvaluationSucceeded ==
    /\ http.pc = "responded"
    /\ ~BodyInvalid
    /\ ext_reply.kind = "returned"
    /\ ext_reply.confidence_score # None

\* C3: the answer to an accepted request whose evaluation succeeded is a 200
\* that carries the collaborator's confidence score unchanged, passed =
\* (confidence_score >= min_confidence of the request), and a reason only
\* when passed is FALSE.
C3_ResponseCarriesScoreAndVerdict ==
    EvaluationSucceeded =>
        \A resp \in http.response :
            /\ resp.status = StatusOk
            /\ Some(resp.body.confidence_score) = ext_reply.confidence_score
            /\ resp.body.passed <=> (resp.body.confidence_score >= RequestedMinConfidence)
            /\ resp.body.reason # None => ~resp.body.passed
            /\ ~resp.body.passed => resp.body.reason # None

C3_Witness ==
    /\ EvaluationSucceeded
    /\ http.body.min_confidence = Some(LowBand)
    /\ ext_reply.confidence_score = Some(LowBand - 1)
    /\ \E resp \in http.response :
          /\ resp.status = StatusOk
          /\ resp.body.confidence_score = LowBand - 1
          /\ ~resp.body.passed
          /\ resp.body.reason # None

\* C4: a request whose prompt is missing, empty or all whitespace, whose
\* min_confidence is outside [0, 1] or whose num_samples is outside [2, 10]
\* is answered 422, and no call to the collaborator is ever made for it.
C4_InvalidRequestRejectedWithoutCall ==
    BodyInvalid =>
        /\ ext_calls = <<>>
        /\ http.pc \in {"received", "responded"}
        /\ http.pc = "responded" =>
              \A resp \in http.response : resp.status = StatusUnprocessable

C4_Witness ==
    /\ http.pc = "responded"
    /\ http.body.prompt = Some(<<" ">>)
    /\ http.body.min_confidence = None
    /\ http.body.num_samples = None
    /\ \E resp \in http.response : resp.status = StatusUnprocessable
    /\ ext_calls = <<>>

---------------------------------------------------------------------------
(* Properties of analyze *)

Terminal == analysis.pc \in {"done", "failed"}

\* a component of the analysis has run
ComponentRan ==
    analysis.pc \in {"consensus", "divergence", "recommendation", "construct", "done"}

\* C5: analyze called with an empty or all-whitespace prompt, or with
\* num_samples < 2, is refused with a validation error before any call to
\* the collaborator.
C5_InvalidInputRejectedBeforeCall ==
    (AllWhitespace(analysis.prompt) \/ analysis.num_samples < MinNumSamples) =>
        /\ ext_calls = <<>>
        /\ analysis.pc # "called" =>
              /\ analysis.pc = "failed"
              /\ \A e \in analysis.error : e.type = "ValidationError"

\* C6: when the collaborator raises during analyze (of a non-blank prompt
\* and at least two samples), no further call is made and the one failure
\* that ends the invocation is a wrapped error, not the collaborator's own.
C6_CollaboratorErrorWrapped ==
    (/\ ~AllWhitespace(analysis.prompt)
     /\ analysis.num_samples >= MinNumSamples
     /\ ext_reply.kind = "raised"
     /\ analysis.pc # "awaiting") =>
        /\ Len(ext_calls) = 1
        /\ analysis.pc = "failed"
        /\ \A e \in analysis.error : e.msg # ext_reply.error.msg

\* C7: every analyze invocation issues exactly one call to the collaborator,
\* a request for all num_samples responses together with the score, whatever
\* num_samples is and however the call ends; no component runs before it.
C7_ExactlyOneBatchedCall ==
    /\ analysis.pc = "called" => ext_calls = <<>>
    /\ analysis.pc # "called" =>
          ext_calls = <<[prompts |-> <<analysis.prompt>>,
                         num_responses |-> analysis.num_samples]>>
    /\ ComponentRan => ext_reply.kind = "returned"

C7_Witness ==
    /\ analysis.pc = "done"
    /\ analysis.num_samples > MinNumSamples
    /\ ext_calls = <<[prompts |-> <<analysis.prompt>>,
                     num_responses |-> analysis.num_samples]>>

\* a stage of this invocation failed: the call, the reading of the score or
\* of num_samples responses, or a component (the mean length of an empty
\* sample set is a division by zero)
StageFailed ==
    \/ ext_reply.kind = "raised"
    \/ /\ ext_reply.kind = "returned"
       /\ \/ ext_reply.confidence_score = None
          \/ Len(ext_reply.responses) < analysis.num_samples
          \/ analysis.num_samples = 0

\* C8: analyze returns no partial result: when a stage failed the invocation
\* ends failed with no CodeAnalysis, and a CodeAnalysis exists only once the
\* invocation is done, no stage failed, and it holds num_samples responses.
C8_NoPartialResult ==
    /\ (Terminal /\ StageFailed) =>
          /\ analysis.pc = "failed"
          /\ analysis.result = None
          /\ analysis.error # None
    /\ analysis.result # None =>
          /\ analysis.pc = "done"
          /\ ~StageFailed
          /\ \A r \in analysis.result :
                /\ Len(r.responses) = analysis.num_samples
                /\ r.num_samples = analysis.num_samples

C8_Witness ==
    /\ analysis.pc = "failed"
    /\ ext_reply.kind = "returned"
    /\ ext_reply.confidence_score # None
    /\ Len(ext_reply.responses) >= 1
    /\ Len(ext_reply.responses) < analysis.num_samples
    /\ analysis.result = None

---------------------------------------------------------------------------
(* Properties of the recommendation generator *)

BandPrefix ==
    <<SubSeq(VeryLowMsg, 1, 32), SubSeq(LowMsg, 1, 39),
      SubSeq(MediumMsg, 1, 17), SubSeq(HighMsg, 1, 15)>>

\* the bands 1 (VERY LOW) .. 4 (HIGH) whose prefix the text starts with
BandsOf(text) == {k \in 1..4 : StartsWith(text, BandPrefix[k])}

\* C9: _generate_recommendation puts every confidence in exactly one band,
\* the band being the number of lower bounds 0.4, 0.6, 0.8 the confidence
\* reaches (bounds inclusive): VERY LOW, LOW, MEDIUM, HIGH.  The band is
\* therefore non-decreasing in the confidence.
C9_BandsWithInclusiveLowerBounds ==
    rec_call.pc = "returned" =>
        BandsOf(rec_call.recommendation) =
            {1 + Cardinality({b \in BandBounds : rec_call.confidence >= b})}

C9_Witness ==
    /\ rec_call.pc = "returned"
    /\ rec_call.confidence = HighBand
    /\ BandsOf(rec_call.recommendation) = {4}

\* C10: outside the MEDIUM band the inconsistency list has no influence:
\* at confidence >= 0.8 the result is the "reliable" HIGH message, below 0.6
\* it is the LOW or the VERY LOW message, and every other inconsistency
\* list gives the same result at that confidence.
C10_ListIgnoredOutsideMedium ==
    (rec_call.pc = "returned"
        /\ (rec_call.confidence >= HighBand \/ rec_call.confidence < MediumBand)) =>
        /\ rec_call.recommendation =
              IF rec_call.confidence >= HighBand THEN HighMsg
              ELSE IF rec_call.confidence >= LowBand THEN LowMsg
              ELSE VeryLowMsg
        /\ \A other \in IncLists :
              _generate_recommendation(rec_call.confidence, other)
                  = rec_call.recommendation

C10_Witness ==
    /\ rec_call.pc = "returned"
    /\ rec_call.confidence >= HighBand
    /\ \E i \in DOMAIN rec_call.inconsistencies :
          rec_call.inconsistencies[i].severity = "high"
    /\ \E i \in DOMAIN rec_call.inconsistencies :
          rec_call.inconsistencies[i].severity = "critical"
    /\ rec_call.recommendation = HighMsg

\* C11: for 0.6 <= confidence < 0.8, _generate_recommendation returns the
\* "Review flagged issues before use" message exactly when some entry of
\* the list has severity "high", and the "Acceptable with review" message
\* otherwise; entries of severity critical, medium or low change nothing.
C11_MediumFlaggedIffHighSeverity ==
    (rec_call.pc = "returned"
        /\ rec_call.confidence >= MediumBand /\ rec_call.confidence < HighBand) =>
        LET has_high == \E i \in DOMAIN rec_call.inconsistencies :
                           rec_call.inconsistencies[i].severity = "high"
        IN  /\ has_high => rec_call.recommendation = MediumFlaggedMsg
            /\ ~has_high => rec_call.recommendation = MediumMsg
            /\ MediumFlaggedMsg # MediumMsg

C11_Witness ==
    /\ rec_call.pc = "returned"
    /\ rec_call.confidence = MediumBand
    /\ rec_call.inconsistencies =
          <<[type |-> "security", severity |-> "critical"],
            [type |-> "conceptual", severity |-> "medium"]>>
    /\ rec_call.recommendation = MediumMsg

---------------------------------------------------------------------------
(* Properties of the detector methods *)

DetectReturned(method) ==
    /\ detect_call.pc = "returned"
    /\ detect_call.method = method

\* the list a returned detector call produced
DetectResult == (CHOOSE o \in detect_call.outcome : TRUE).value

SumOver(f, n) == SumSeq([i \in 1..n |-> f[i]])

\* C12: for a non-empty list of responses, _find_inconsistencies emits a
\* structural entry of severity high exactly when the population variance
\* of the character lengths, sum(l^2)/N - (sum(l)/N)^2, is strictly greater
\* than half their mean sum(l)/N; it never emits more than one.
C12_StructuralIffVarianceAboveHalfMean ==
    DetectReturned("_find_inconsistencies") =>
        LET rs == detect_call.responses
            N == Len(rs)
            S == SumOver([i \in 1..N |-> Len(rs[i])], N)
            Q == SumOver([i \in 1..N |-> Len(rs[i]) * Len(rs[i])], N)
            structural == {k \in DOMAIN DetectResult : DetectResult[k].type = "structural"}
        IN  /\ N > 0
            /\ Cardinality(structural) <= 1
            /\ \A k \in structural : DetectResult[k].severity = "high"
            /\ (structural # {}) <=> (2 * (N * Q - S * S) > S * N)

\* lengths 3 and 10: variance 12.25 against a mean of 6.5
C12_Witness ==
    /\ DetectReturned("_find_inconsistencies")
    /\ detect_call.responses = <<<<"a", "\n", "b">>,
                                 <<"T", "o", "k", "e", "n", "s", " ", "a", "\n", "b">>>>
    /\ \E k \in DOMAIN DetectResult :
          /\ DetectResult[k].type = "structural"
          /\ DetectResult[k].severity = "high"
          /\ DetectResult[k].details.lengths = <<3, 10>>

\* the lower-cased whitespace tokens of a response: its maximal runs of
\* characters that are not whitespace
TokensOf(r) ==
    {lower(SubSeq(r, s, e)) : <<s, e>> \in
        {se \in (1..Len(r)) \X (1..Len(r)) :
            /\ se[1] <= se[2]
            /\ \A i \in se[1]..se[2] : r[i] \notin Whitespace
            /\ se[1] = 1 \/ r[se[1] - 1] \in Whitespace
            /\ se[2] = Len(r) \/ r[se[2] + 1] \in Whitespace}}

\* C13: for N responses, _find_inconsistencies emits exactly one conceptual
\* entry, of severity medium, for each lower-cased whitespace token longer
\* than 5 characters that occurs in at least one but fewer than N responses,
\* with frequency count/N (strictly between 0 and 1), and no conceptual
\* entry for any other token: not for one present in all N responses, not
\* for one of 5 characters or fewer.
C13_ConceptualPerPartialKeyword ==
    DetectReturned("_find_inconsistencies") =>
        LET rs == detect_call.responses
            N == Len(rs)
            count(w) == Cardinality({i \in 1..N : w \in TokensOf(rs[i])})
            expected == {w \in UNION {TokensOf(rs[i]) : i \in 1..N} :
                            Len(w) > 5 /\ count(w) < N}
            conceptual == {k \in DOMAIN DetectResult : DetectResult[k].type = "conceptual"}
        IN  /\ \A w \in expected :
                  Cardinality({k \in conceptual : DetectResult[k].keyword = w}) = 1
            /\ \A k \in conceptual :
                  /\ DetectResult[k].keyword \in expected
                  /\ DetectResult[k].severity = "medium"
                  /\ DetectResult[k].frequency = <<count(DetectResult[k].keyword), N>>
                  /\ 0 < DetectResult[k].frequency[1]
                  /\ DetectResult[k].frequency[1] < DetectResult[k].frequency[2]

\* "Tokens a\nb", "tokens", "secure": tokens in 2 of 3, secure in 1 of 3,
\* nothing for the short words a and b
C13_Witness ==
    /\ DetectReturned("_find_inconsistencies")
    /\ detect_call.responses = <<<<"T", "o", "k", "e", "n", "s", " ", "a", "\n", "b">>,
                                 <<"t", "o", "k", "e", "n", "s">>,
                                 <<"s", "e", "c", "u", "r", "e">>>>
    /\ {<<DetectResult[k].keyword, DetectResult[k].frequency>> :
            k \in {j \in DOMAIN DetectResult : DetectResult[j].type = "conceptual"}}
          = {<<<<"t", "o", "k", "e", "n", "s">>, <<2, 3>>>>,
             <<<<"s", "e", "c", "u", "r", "e">>, <<1, 3>>>>}

\* the newline-delimited lines of a response: the stretches between two
\* consecutive delimiters, the start and the end of the text counting as
\* delimiters; an empty stretch is the empty line
LinesOf(r) ==
    LET cuts == {0, Len(r) + 1} \cup {i \in 1..Len(r) : r[i] = "\n"}
    IN  {SubSeq(r, b[1] + 1, b[2] - 1) : b \in
            {c \in cuts \X cuts :
                /\ c[1] < c[2]
                /\ \A x \in cuts : ~(c[1] < x /\ x < c[2])}}

NoDuplicates(seq) == \A i, j \in DOMAIN seq : i # j => seq[i] # seq[j]

\* C14: _find_consensus returns the distinct newline-delimited lines that
\* occur in every response, each once, the empty line included: nothing for
\* no responses, the response's own distinct lines for one response; and
\* the same list is a possible result for every reordering of the responses.
C14_ConsensusIsCommonLines ==
    DetectReturned("_find_consensus") =>
        LET rs == detect_call.responses
            N == Len(rs)
        IN  /\ NoDuplicates(DetectResult)
            /\ N = 0 => DetectResult = <<>>
            /\ N = 1 => Range(DetectResult) = LinesOf(rs[1])
            /\ N >= 1 =>
                  Range(DetectResult)
                      = {l \in LinesOf(rs[1]) : \A i \in 1..N : l \in LinesOf(rs[i])}
            /\ \A order \in ListsOf(1..N) :
                  DetectResult \in _find_consensus([i \in 1..N |-> rs[order[i]]])

\* "a\nb", "Tokens a\nb" and "a\nb" again share the line b only
C14_Witness ==
    /\ DetectReturned("_find_consensus")
    /\ detect_call.responses = <<<<"a", "\n", "b">>,
                                 <<"T", "o", "k", "e", "n", "s", " ", "a", "\n", "b">>,
                                 <<"a", "\n", "b">>>>
    /\ DetectResult = <<<<"b">>>>

\* at least two responses, all the same text
IdenticalResponses ==
    /\ Len(detect_call.responses) >= 2
    /\ \A i \in DOMAIN detect_call.responses :
          detect_call.responses[i] = detect_call.responses[1]

\* C15, as claimed: for two or more identical responses _find_consensus
\* returns at least one element that is not the empty string.
C15_IdenticalGiveNonEmptyElement ==
    (DetectReturned("_find_consensus") /\ IdenticalResponses) =>
        \E k \in DOMAIN DetectResult : DetectResult[k] # <<>>

\* C15, amended: for two or more identical responses _find_consensus
\* returns the distinct lines of that response, hence at least one element;
\* one of them is not the empty string exactly when the response has a
\* character other than the newline.
C15_IdenticalGiveOwnLines ==
    (DetectReturned("_find_consensus") /\ IdenticalResponses) =>
        LET r == detect_call.responses[1]
        IN  /\ Len(DetectResult) >= 1
            /\ Range(DetectResult) = LinesOf(r)
            /\ (\E k \in DOMAIN DetectResult : DetectResult[k] # <<>>)
                  <=> (\E i \in DOMAIN r : r[i] # "\n")

C15_Witness ==
    /\ DetectReturned("_find_consensus")
    /\ detect_call.responses = <<<<"a", "\n", "b">>, <<"a", "\n", "b">>>>
    /\ Range(DetectResult) = {<<"a">>, <<"b">>}
    /\ Len(DetectResult) = 2

\* C16: for two or more identical responses _find_divergence returns the
\* empty list.
C16_IdenticalGiveNoDivergence ==
    (DetectReturned("_find_divergence") /\ IdenticalResponses) =>
        DetectResult = <<>>

C16_Witness ==
    /\ DetectReturned("_find_divergence")
    /\ detect_call.responses =
          [i \in 1..3 |-> <<"T", "o", "k", "e", "n", "s", " ", "a", "\n", "b">>]
    /\ DetectResult = <<>>

\* the number of records of the unified line diff of responses i and j
\* (0-based), and the pairs the detector visits
DiffRecords(i, j) ==
    unified_diff_len(split_on(detect_call.responses[i + 1], "\n"),
                     split_on(detect_call.responses[j + 1], "\n"))

IndexPairs ==
    {p \in (0..(Len(detect_call.responses) - 1)) \X (0..(Len(detect_call.responses) - 1)) :
        p[1] < p[2]}

\* C17: for N responses _find_divergence returns at most N(N-1)/2 entries;
\* a pair has an entry exactly when its unified line diff has more than 5
\* records; the entry's diff_lines is that number of records and its
\* similarity lies in [0, 1].
C17_DivergenceEntriesAboveThreshold ==
    DetectReturned("_find_divergence") =>
        LET N == Len(detect_call.responses)
        IN  /\ 2 * Len(DetectResult) <= N * (N - 1)
            /\ \A k \in DOMAIN DetectResult :
                  LET e == DetectResult[k]
                  IN  /\ e.response_pair \in IndexPairs
                      /\ e.diff_lines = DiffRecords(e.response_pair[1], e.response_pair[2])
                      /\ e.diff_lines > 5
                      /\ e.similarity[2] > 0
                      /\ 0 <= e.similarity[1]
                      /\ e.similarity[1] <= e.similarity[2]
            /\ \A p \in IndexPairs :
                  DiffRecords(p[1], p[2]) > 5 =>
                      \E k \in DOMAIN DetectResult : DetectResult[k].response_pair = p

\* "a\nb" against "Tokens a\nb": 6 records, 3 of 13 characters matched
\* twice over; "tokens" against "secure": 5 records, no entry
C17_Witness ==
    /\ DetectReturned("_find_divergence")
    /\ detect_call.responses = <<<<"a", "\n", "b">>,
                                 <<"T", "o", "k", "e", "n", "s", " ", "a", "\n", "b">>>>
    /\ DetectResult = <<[response_pair |-> <<0, 1>>, diff_lines |-> 6,
                         similarity |-> <<6, 13>>]>>

\* C18: every response_pair (i, j) of _find_divergence has 0 <= i < j < N,
\* and the entries come in strictly increasing lexicographic order of their
\* pairs, so that no pair occurs twice and the order is fixed by the input.
C18_PairsOrderedWithoutDuplicates ==
    DetectReturned("_find_divergence") =>
        LET N == Len(detect_call.responses)
            pair(k) == DetectResult[k].response_pair
        IN  /\ \A k \in DOMAIN DetectResult :
                  /\ 0 <= pair(k)[1]
                  /\ pair(k)[1] < pair(k)[2]
                  /\ pair(k)[2] < N
            /\ \A k, l \in DOMAIN DetectResult :
                  k < l => \/ pair(k)[1] < pair(l)[1]
                           \/ (pair(k)[1] = pair(l)[1] /\ pair(k)[2] < pair(l)[2])

C18_Witness ==
    /\ DetectReturned("_find_divergence")
    /\ detect_call.responses = <<<<"a", "\n", "b">>,
                                 <<"t", "o", "k", "e", "n", "s">>,
                                 <<"T", "o", "k", "e", "n", "s", " ", "a", "\n", "b">>>>
    /\ [k \in DOMAIN DetectResult |-> DetectResult[k].response_pair]
          = <<<<0, 1>>, <<0, 2>>, <<1, 2>>>>

---------------------------------------------------------------------------
(* Properties of the result of analyze *)

\* C20: a CodeAnalysis returned by analyze(prompt, num_samples) carries the
\* prompt and the count of the call, the first num_samples responses of the
\* collaborator's reply in the reply's order, the reply's score, and the
\* inconsistencies, consensus parts, divergent parts and recommendation
\* that the four components give for exactly those responses and that score.
C20_ResultComposedFromOneReply ==
    analysis.pc = "done" =>
        /\ analysis.result # None
        /\ \A r \in analysis.result :
              /\ <<r.prompt>> = ext_calls[1].prompts
              /\ r.prompt = analysis.prompt
              /\ r.num_samples = ext_calls[1].num_responses
              /\ r.num_samples = analysis.num_samples
              /\ Len(r.responses) = r.num_samples
              /\ \A i \in 1..r.num_samples : r.responses[i] = ext_reply.responses[i]
              /\ Some(r.confidence_score) = ext_reply.confidence_score
              /\ ~_find_inconsistencies(r.responses).raised
              /\ r.inconsistencies \in _find_inconsistencies(r.responses).value
              /\ r.consensus_parts \in _find_consensus(r.responses)
              /\ r.divergent_parts = _find_divergence(r.responses)
              /\ r.recommendation
                    = _generate_recommendation(r.confidence_score, r.inconsistencies)

\* two samples asked, three in the reply: the first two are kept, in order
C20_Witness ==
    /\ analysis.pc = "done"
    /\ analysis.num_samples = MinNumSamples
    /\ ext_reply.responses = <<<<"a", "\n", "b">>,
                               <<"T", "o", "k", "e", "n", "s", " ", "a", "\n", "b">>,
                               <<"s", "e", "c", "u", "r", "e">>>>
    /\ ext_reply.confidence_score = Some(MediumBand)
    /\ \E r \in analysis.result :
          /\ r.responses = SubSeq(ext_reply.responses, 1, 2)
          /\ r.confidence_score = MediumBand
          /\ r.recommendation = MediumFlaggedMsg
          /\ r.consensus_parts = <<<<"b">>>>
          /\ Len(r.divergent_parts) = 1

---------------------------------------------------------------------------
(* Properties of invocations in flight together *)

\* C19: however the invocations of analyze and evaluate_prompt interleave
\* at their awaits, each issues one call of its own, for its own prompt and
\* sample count, and what it returns or raises is what it returns or raises
\* alone for the outcome of that call: nothing of another invocation's
\* prompt, count, responses or score enters it.
C19_InvocationsIndependent ==
    \A t \in DOMAIN tasks :
        LET task == tasks[t]
        IN  /\ task.pc = "called" => (task.call = 0 /\ task.outcome = None)
            /\ task.pc = "awaiting" => task.outcome = None
            /\ task.pc # "called" =>
                  /\ task.call \in DOMAIN ext_calls
                  /\ ext_calls[task.call]
                        = [prompts |-> <<task.prompt>>, num_responses |-> task.num_samples]
                  /\ \A u \in DOMAIN tasks : tasks[u].call = task.call => u = t
            /\ task.pc \in {"done", "failed"} =>
                  /\ replies[task.call] # Pending
                  /\ task.outcome \subseteq task_outcomes(task, replies[task.call])
                  /\ Cardinality(task.outcome) = 1
                  /\ \A o \in task.outcome :
                        (~o.raised /\ task.kind = "analyze") =>
                            /\ o.value.prompt = task.prompt
                            /\ o.value.num_samples = task.num_samples
                            /\ o.value.responses
                                  = SubSeq(replies[task.call].responses, 1, task.num_samples)
                            /\ Some(o.value.confidence_score)
                                  = replies[task.call].confidence_score

\* two analyze invocations of the same prompt: the second called first and
\* still suspended although its call has raised, the first already done
\* with the result of its own, later call
C19_Witness ==
    /\ Len(tasks) = 2
    /\ tasks[1].kind = "analyze" /\ tasks[2].kind = "analyze"
    /\ tasks[1].prompt = tasks[2].prompt
    /\ tasks[1].num_samples = MinNumSamples
    /\ tasks[1].call = 2 /\ tasks[2].call = 1
    /\ replies[1].kind = "raised"
    /\ replies[2].kind = "returned"
    /\ tasks[2].pc = "awaiting"
    /\ tasks[1].pc = "done"
    /\ \E o \in tasks[1].outcome :
          /\ o.value.confidence_score = LowBand
          /\ Len(o.value.responses) = MinNumSamples

---------------------------------------------------------------------------
(* Further properties of the inconsistency detector *)

DetectEnded(method) ==
    /\ detect_call.pc \in {"returned", "raised"}
    /\ detect_call.method = method

\* C21: _find_inconsistencies issues no external call; for one response or
\* more it returns a list, and for no responses it raises instead of
\* returning.
C21_FailsOnlyOnEmptyInput ==
    /\ detect_call.method = "_find_inconsistencies" => ext_calls = <<>>
    /\ DetectEnded("_find_inconsistencies") =>
          /\ Len(detect_call.responses) >= 1 =>
                /\ detect_call.pc = "returned"
                /\ \A o \in detect_call.outcome : ~o.raised
          /\ Len(detect_call.responses) = 0 =>
                /\ detect_call.pc = "raised"
                /\ \A o \in detect_call.outcome : o.raised

C21_Witness ==
    /\ detect_call.method = "_find_inconsistencies"
    /\ detect_call.responses = <<>>
    /\ detect_call.pc = "raised"
    /\ \E o \in detect_call.outcome : o.raised /\ o.type = "ZeroDivisionError"

\* C26: a list returned by _find_inconsistencies has at most one structural
\* entry, which is then its first element and of severity high; every other
\* element is conceptual and of severity medium, and no two of them name
\* the same keyword.  No other type and no other severity occurs.
C26_ListShape ==
    DetectReturned("_find_inconsistencies") =>
        /\ \A k \in DOMAIN DetectResult :
              \/ /\ DetectResult[k].type = "structural"
                 /\ DetectResult[k].severity = "high"
                 /\ k = 1
              \/ /\ DetectResult[k].type = "conceptual"
                 /\ DetectResult[k].severity = "medium"
        /\ \A k, l \in DOMAIN DetectResult :
              (/\ k # l
               /\ DetectResult[k].type = "conceptual"
               /\ DetectResult[l].type = "conceptual") =>
                  DetectResult[k].keyword # DetectResult[l].keyword

\* lengths 3, 6 and 10 with the keywords secure and tokens, each in 1 of 3:
\* the structural entry first, then two conceptual entries
C26_Witness ==
    /\ DetectReturned("_find_inconsistencies")
    /\ detect_call.responses = <<<<"a", "\n", "b">>,
                                 <<"s", "e", "c", "u", "r", "e">>,
                                 <<"T", "o", "k", "e", "n", "s", " ", "a", "\n", "b">>>>
    /\ Len(DetectResult) = 3
    /\ DetectResult[1].type = "structural"
    /\ DetectResult[2].type = "conceptual"
    /\ DetectResult[3].type = "conceptual"

\* C28: for one response or more, all the same text, _find_inconsistencies
\* returns the empty list.
C28_IdenticalGiveNoInconsistency ==
    (/\ DetectEnded("_find_inconsistencies")
     /\ Len(detect_call.responses) >= 1
     /\ \A i \in DOMAIN detect_call.responses :
           detect_call.responses[i] = detect_call.responses[1]) =>
        /\ detect_call.pc = "returned"
        /\ DetectResult = <<>>

C28_Witness ==
    /\ DetectReturned("_find_inconsistencies")
    /\ detect_call.responses =
          [i \in 1..2 |-> <<"T", "o", "k", "e", "n", "s", " ", "a", "\n", "b">>]
    /\ DetectResult = <<>>

---------------------------------------------------------------------------
(* Further properties of the POST /evaluate exchange *)

\* the request was accepted and its evaluation failed: the collaborator
\* raised, or its frame has no confidence_score column
EvaluationFailed ==
    /\ http.pc = "responded"
    /\ ~BodyInvalid
    /\ \/ ext_reply.kind = "raised"
       \/ ext_reply.kind = "returned" /\ ext_reply.confidence_score = None

\* C25: an accepted request whose evaluation failed is answered 500 with a
\* detail "Evaluation failed: UQLM evaluation failed: ..." that ends with
\* the collaborator's own message; the answer carries no confidence score
\* and no verdict of the policy, and a 200 is given only when the
\* evaluation succeeded.
C25_FailureAnswered500 ==
    /\ EvaluationFailed =>
          /\ http.response # None
          /\ \A resp \in http.response :
                /\ resp.status = StatusServerError
                /\ DOMAIN resp = {"status", "detail"}
                /\ StartsWith(resp.detail, EvalFailedPrefix \o UqlmFailedPrefix)
                /\ ext_reply.kind = "raised" =>
                      resp.detail = EvalFailedPrefix \o UqlmFailedPrefix
                                       \o ext_reply.error.msg
    /\ \A resp \in http.response :
          resp.status = StatusOk =>
              (ext_reply.kind = "returned" /\ ext_reply.confidence_score # None)

C25_Witness ==
    /\ EvaluationFailed
    /\ ext_reply.kind = "raised"
    /\ ext_reply.error.type = "TimeoutError"
    /\ \E resp \in http.response :
          /\ resp.status = StatusServerError
          /\ resp.detail = EvalFailedPrefix \o UqlmFailedPrefix
                              \o <<"t", "i", "m", "e", "o", "u", "t">>

---------------------------------------------------------------------------
(* Further properties of the result of analyze *)

\* the population variance of the lengths of rs exceeds half their mean
LengthsVary(rs) ==
    LET N == Len(rs)
        S == SumOver([i \in 1..N |-> Len(rs[i])], N)
        Q == SumOver([i \in 1..N |-> Len(rs[i]) * Len(rs[i])], N)
    IN  2 * (N * Q - S * S) > S * N

\* C27: a result of analyze whose confidence is in [0.6, 0.8) recommends
\* "Review flagged issues before use" exactly when the variance of the
\* response lengths exceeds half their mean, and "Acceptable with review"
\* otherwise, whatever number of keyword disagreements it lists.
C27_MediumFlaggedIffLengthsVary ==
    analysis.pc = "done" =>
        \A r \in analysis.result :
            (r.confidence_score >= MediumBand /\ r.confidence_score < HighBand) =>
                /\ LengthsVary(r.responses) => r.recommendation = MediumFlaggedMsg
                /\ ~LengthsVary(r.responses) => r.recommendation = MediumMsg

\* "tokens" and "secure": equal lengths, two keyword disagreements
C27_Witness ==
    /\ analysis.pc = "done"
    /\ \E r \in analysis.result :
          /\ r.confidence_score = MediumBand
          /\ r.responses = <<<<"t", "o", "k", "e", "n", "s">>,
                             <<"s", "e", "c", "u", "r", "e">>>>
          /\ Len(r.inconsistencies) = 2
          /\ \A k \in DOMAIN r.inconsistencies : r.inconsistencies[k].type = "conceptual"
          /\ r.recommendation = MediumMsg

(***************************************************************************)
(* Properties of the command line and of the benchmark runner              *)
(***************************************************************************)
Contains(text, part) ==
    \E i \in 0..(Len(text) - Len(part)) : SubSeq(text, i + 1, i + Len(part)) = part

KeyNotFoundText ==
    <<"O", "P", "E", "N", "A", "I", "_", "A", "P", "I", "_", "K", "E", "Y", " ", "n", "o", "t", " ", "f", "o", "u", "n", "d">>
SamplesRangeText ==
    <<"N", "u", "m", "b", "e", "r", " ", "o", "f", " ", "s", "a", "m", "p", "l", "e", "s", " ", "m", "u", "s", "t", " ", "b", "e", " ", "b", "e", "t", "w", "e", "e", "n", " ", "2", " ", "a", "n", "d", " ", "1", "0">>

CliEnded == cli.pc \in {"returned", "crashed"}
KeyNotSet == cli.api_key = None \/ cli.api_key = Some(<<>>)
Printed(part) == \E i \in DOMAIN cli.printed : Contains(cli.printed[i], part)

\* C24: with OPENAI_API_KEY not set, each of review, batch and compare
\* prints an error holding "OPENAI_API_KEY not found" and returns; no
\* analyzer is constructed and the collaborator is never called.
C24_NoKeyNoAnalyzer ==
    (cli.pc \notin {"idle", "invoked"} /\ KeyNotSet) =>
        /\ cli.pc = "returned"
        /\ Printed(KeyNotFoundText)
        /\ cli.analyzers = 0
        /\ cli.results = <<>>
        /\ ext_calls = <<>>

\* compare with the variable absent
C24_Witness ==
    /\ cli.command = "compare"
    /\ cli.api_key = None
    /\ cli.pc = "returned"
    /\ cli.printed = <<print_error(KeyErrorMsg)>>
    /\ cli.analyzers = 0
    /\ ext_calls = <<>>

\* C23: review with a sample count below 2 or above 10 ends with a non-zero
\* exit code or with "Number of samples must be between 2 and 10" printed,
\* whether or not OPENAI_API_KEY is set, and constructs no analyzer and
\* calls no collaborator.
C23_InvalidSamplesReported ==
    (cli.command = "review" /\ CliEnded
       /\ (cli.samples < MinNumSamples \/ cli.samples > MaxNumSamples)) =>
        /\ cli.exit_code # Some(0) \/ Printed(SamplesRangeText)
        /\ cli.analyzers = 0
        /\ ext_calls = <<>>

BatchRan == cli.command = "batch" /\ cli.items # <<>>

\* C22: a run over several prompts is not aborted by a failure of analyze
\* for one of them: once the batch command has ended, analyze was called
\* for every prompt and the summary was printed; run_benchmark never stops
\* short of its last prompt and stores the category.
C22_FailureDoesNotAbortRun ==
    /\ (BatchRan /\ CliEnded) =>
           /\ cli.pc = "returned"
           /\ Len(ext_calls) = Len(cli.items)
           /\ cli.summary # None
    /\ bench.pc = "stored" =>
           \A cr \in bench.stored :
               /\ Len(ext_calls) = Len(bench.prompts)
               /\ Len(cr.prompts) = Len(bench.prompts)

\* run_benchmark's share of C22, which its try block gives it
BenchRunsToEnd ==
    /\ bench.pc = "stored" =>
           \A cr \in bench.stored :
               /\ Len(ext_calls) = Len(bench.prompts)
               /\ Len(cr.prompts) = Len(bench.prompts)
    /\ bench.pc = "loop" =>
           \A cr \in bench.category_results : Len(cr.prompts) = Len(ext_calls)

Succeeded(rec) == rec.error = None
ConfidenceOf(rec) == CHOOSE c \in rec.confidence : TRUE

\* C30: when run_benchmark stores a category, its prompts list has one
\* record per input prompt, in input order, each a result record or an error
\* record; high + medium + low is the number of result records;
\* flagged_issues is at most that number; average_confidence is the mean of
\* the result records' confidences, and 0.0 when there is none.
C30_CategoryTotals ==
    bench.pc = "stored" =>
        \A cr \in bench.stored :
            LET n == Len(bench.prompts)
                ok == {i \in 1..n : Succeeded(cr.prompts[i])}
                total == SumSeq([i \in 1..n |-> IF i \in ok
                                                THEN ConfidenceOf(cr.prompts[i])
                                                ELSE 0])
            IN  /\ Len(cr.prompts) = n
                /\ \A i \in 1..n :
                      /\ cr.prompts[i].prompt = bench.prompts[i]
                      /\ (cr.prompts[i].error = None) # (cr.prompts[i].confidence = None)
                /\ cr.high_confidence + cr.medium_confidence + cr.low_confidence
                   = Cardinality(ok)
                /\ cr.flagged_issues <= Cardinality(ok)
                /\ IF ok = {} THEN cr.average_confidence = <<0, 1>>
                   ELSE /\ cr.average_confidence[2] > 0
                        /\ cr.average_confidence[1] * Cardinality(ok)
                           = total * cr.average_confidence[2]

\* three prompts: a failure between two successes
C30_Witness ==
    /\ bench.pc = "stored"
    /\ \E cr \in bench.stored :
          /\ Len(cr.prompts) = 3
          /\ Succeeded(cr.prompts[1])
          /\ ~Succeeded(cr.prompts[2])
          /\ Succeeded(cr.prompts[3])
          /\ cr.high_confidence + cr.medium_confidence + cr.low_confidence = 2
          /\ cr.average_confidence[2] = 2

BandsAllRan ==
    /\ bands.recommendation # None
    /\ bands.level # None
    /\ bands.batch # None
    /\ bands.bench # None
    /\ bands.gate # None

\* C29: every consumer sorts a score into the band of
\* _generate_recommendation: the formatter's level is the text before
\* " - " in the recommendation; the batch summary and run_benchmark count
\* the score as high from 0.8 and as medium from 0.6, both inclusive, and
\* as low below; the gate at the default min_confidence passes exactly the
\* scores whose recommendation is HIGH or MEDIUM.
C29_ConsumersAgreeOnBand ==
    BandsAllRan =>
        \A r \in bands.recommendation, l \in bands.level, b \in bands.batch,
           c \in bands.bench, g \in bands.gate :
            LET high == StartsWith(r, HighLevel)
                medium == StartsWith(r, MediumLevel)
            IN  /\ StartsWith(r, l \o <<" ", "-", " ">>)
                /\ high <=> bands.score >= HighBand
                /\ medium <=> (bands.score >= MediumBand /\ bands.score < HighBand)
                /\ b.high_conf = (IF high THEN 1 ELSE 0)
                /\ b.medium_conf = (IF medium THEN 1 ELSE 0)
                /\ b.low_conf = (IF high \/ medium THEN 0 ELSE 1)
                /\ c.high_confidence = b.high_conf
                /\ c.medium_confidence = b.medium_conf
                /\ c.low_confidence = b.low_conf
                /\ g <=> (high \/ medium)

\* the score 0.8 itself: HIGH for all, and passed
C29_Witness ==
    /\ BandsAllRan
    /\ bands.score = HighBand
    /\ bands.level = Some(HighLevel)
    /\ bands.gate = Some(TRUE)
    /\ \E b \in bands.batch : b.high_conf = 1
    /\ \E c \in bands.bench : c.high_confidence = 1

=============================================================================
